---- MODULE Spec2Model ----
(***************************************************************************)
(* kafka-websocket-shim: the stream adapter (shim.Conn) that carries a     *)
(* length-prefixed byte protocol over whole-message WebSocket frames.      *)
(*                                                                         *)
(*   SpecRead   Conn.Read against a peer that sends frames                 *)
(*   SpecStrict Conn.Write of src/shim/shim.go (strict alignment)          *)
(*   SpecAcc    Conn.Write of src/unnamed/part_000 (accumulating)          *)
(*   SpecWrite  both variants of Conn.Write                                *)
(*   SpecDial   Dialer.Dial / Dialer.DialContext                           *)
(*   SpecBroker the forwarding service with one connection                 *)
(*   SpecProxy  the forwarding service with several connections            *)
(*                                                                         *)
(* The caller of Write passes a byte stream in chunks of any length.       *)
(***************************************************************************)
EXTENDS Integers, Sequences, FiniteSets, TLC

VARIABLES
    \* ---- read side (Conn.readBuff / Conn.rBuf and the transport) ----
    readBuff,     \* Conn.readBuff: unconsumed tail of the last frame
    peerSent,     \* bytes the peer has put into frames so far
    wsRecvCount,  \* ws.ReadMessage calls made so far
    wsRecvd,      \* concatenated payloads of the binary frames received
    rdOut,        \* concatenated bytes the Read calls have returned
    rRet,         \* the last Read call: arguments, result, state before
    \* ---- write side (Conn.Write and the transport) ----
    policy,       \* which Conn.Write: "strict" or "accumulating"
    stream,       \* the bytes the caller is going to write, in order
    pos,          \* how many of them have been passed to Write
    wpc,          \* where Conn.Write is: "idle", "loop", "panicked"
    wb,           \* strict: the local slice b still to be processed
    wBuf,         \* accumulating: Conn.wBuf
    written,      \* the local counter written
    wArg,         \* the argument b of the call in progress / last call
    wPend,        \* Len(wBuf) when the call began
    wSent0,       \* Len(wsOut) when the call began
    wsOut,        \* frames the transport accepted: <<tag, payload>>
    sendFails,    \* transport sends that failed so far
    spins,        \* loop iterations in a row that consumed no byte
    iters,        \* loop iterations of the call in progress / last call
    wRet,         \* the last return of Write: [n, err, expected, actual]
    \* ---- the connector (Dialer.Dial / Dialer.DialContext) ----
    dpc,          \* where the call is: "idle", "handshake"
    dCalls,       \* calls of Dial / DialContext made so far
    dShakes,      \* calls of websocket.DefaultDialer.Dial made so far
    dCall,        \* the call in progress / last call
    dRet,         \* the last return: [conn, err, errArg, ctxDone]
    \* ---- the forwarding service ----
    conns,        \* per connection: handleClient, dialBroker, its tasks
    mainpc,       \* main: "select", "close", "wait", "exited", "fatal"
    cancelled,    \* cancel() of main's context has been called
    gErr,         \* first error a task returned to the top-level group
    lnClosed,     \* ln.Close() has succeeded
    acceptpc,     \* the accept loop: "run", "returned"
    acceptSaw,    \* ctx when the loop saw an Accept error
    exitErr,      \* the error main gave to log.Fatal
    dialFailsLeft, \* per connection: dial attempts that may still fail
    faultsLeft    \* other failures the environment may still inject

rvars == <<readBuff, peerSent, wsRecvCount, wsRecvd, rdOut, rRet>>
wvars == <<policy, stream, pos, wpc, wb, wBuf, written, wArg, wPend, wSent0,
           wsOut, sendFails, spins, iters, wRet>>
dvars == <<dpc, dCalls, dShakes, dCall, dRet>>
pvars == <<conns, mainpc, cancelled, gErr, lnClosed, acceptpc, acceptSaw,
           exitErr, dialFailsLeft, faultsLeft>>
vars == <<rvars, wvars, dvars, pvars>>

(***************************************************************************)
(* Bounds of the model.                                                    *)
(***************************************************************************)
MaxFrames == 3      \* ws.ReadMessage calls
MaxFrameLen == 3    \* payload bytes per received frame
MaxBuf == 4         \* len(b) of a Read call
MaxItems == 3       \* catalogue items in the caller's stream
MaxChunk == 14       \* len(b) of a Write call
MaxSendFails == 1   \* transport sends that fail
MaxSpin == 2        \* zero-progress loop iterations that are followed
MaxDials == 3       \* calls of Dial / DialContext
MaxFaults == 2      \* failures injected into the one-connection service
ProxyFaults == 1    \* failures injected into the two-connection service
MaxPipeSends == 2   \* segments the two peers of a connection send
MaxConnFrames == 1  \* frames received by an adapter that is also written to

(***************************************************************************)
(* Program constants.                                                      *)
(***************************************************************************)
int32Size == 4
BinaryMessage == 2
TextMessage == 1

(***************************************************************************)
(* Go slices and builtins.                                                 *)
(***************************************************************************)
Min(a, b) == IF a < b THEN a ELSE b

\* s[:n]
Take(s, n) == SubSeq(s, 1, n)

\* s[n:]
Drop(s, n) == SubSeq(s, n + 1, Len(s))

\* A copy that ignores the length of the destination.
CopyWhole(dstLen, src) == Len(src)

\* copy(dst, src) with len(dst) = dstLen: the number of bytes copied
Copy(dstLen, src) == Min(dstLen, Len(src))

\* A max that returns its first argument.
maxFirst(a, b) == a

\* max(a, b) of the accumulating variant
max(a, b) == IF a > b THEN a ELSE b

(***************************************************************************)
(* The read side.                                                          *)
(***************************************************************************)
\* The peer's k next bytes. Read never looks at a byte's value, so the peer
\* numbers its bytes: a dropped, repeated or reordered byte shows.
PeerBytes(from, k) == [i \in 1..k |-> (from + i - 1) % 256]

NoRead == [n |-> 0, err |-> "none", errArg |-> 0, msgType |-> 0,
           lenb |-> 0, data |-> <<>>, pre |-> <<>>, recv0 |-> 0,
           frame |-> <<>>]

ReadInit ==
    /\ readBuff = <<>>
    /\ peerSent = 0
    /\ wsRecvCount = 0
    /\ wsRecvd = <<>>
    /\ rdOut = <<>>
    /\ rRet = NoRead

\* A buffered read that forgets to advance the residual buffer.
ReadBufferedNoAdvance ==
    \E lenb \in 0..MaxBuf :
        /\ Len(readBuff) > 0
        /\ LET n == Copy(lenb, readBuff) IN
            /\ readBuff' = readBuff
            /\ rdOut' = rdOut \o Take(readBuff, n)
            /\ rRet' = [n |-> n, err |-> "nil", errArg |-> 0, msgType |-> 0,
                        lenb |-> lenb, data |-> Take(readBuff, n),
                        pre |-> readBuff, recv0 |-> wsRecvCount,
                        frame |-> <<>>]
        /\ UNCHANGED <<peerSent, wsRecvCount, wsRecvd>>
        /\ UNCHANGED <<wvars, dvars, pvars>>

\* Conn.Read, residual buffer not empty: serve the call from the buffer.
\* A Read from the residual that also empties the pending-write buffer,
\* as if both directions shared one buffer.
ReadBufferedSharedBuf ==
    \E lenb \in 0..MaxBuf :
        /\ Len(readBuff) > 0
        /\ LET n == Copy(lenb, readBuff) IN
            /\ readBuff' = Drop(readBuff, n)
            /\ rdOut' = rdOut \o Take(readBuff, n)
            /\ rRet' = [n |-> n, err |-> "nil", errArg |-> 0, msgType |-> 0,
                        lenb |-> lenb, data |-> Take(readBuff, n),
                        pre |-> readBuff, recv0 |-> wsRecvCount,
                        frame |-> <<>>]
        /\ wBuf' = <<>>
        /\ UNCHANGED <<peerSent, wsRecvCount, wsRecvd>>
        /\ UNCHANGED <<policy, stream, pos, wpc, wb, written, wArg, wPend,
                       wSent0, wsOut, sendFails, spins, iters, wRet>>
        /\ UNCHANGED <<dvars, pvars>>

ReadBuffered ==
    \E lenb \in 0..MaxBuf :
        /\ Len(readBuff) > 0
        /\ LET n == Copy(lenb, readBuff) IN
            /\ readBuff' = Drop(readBuff, n)
            /\ rdOut' = rdOut \o Take(readBuff, n)
            /\ rRet' = [n |-> n, err |-> "nil", errArg |-> 0, msgType |-> 0,
                        lenb |-> lenb, data |-> Take(readBuff, n),
                        pre |-> readBuff, recv0 |-> wsRecvCount,
                        frame |-> <<>>]
        /\ UNCHANGED <<peerSent, wsRecvCount, wsRecvd>>
        /\ UNCHANGED <<wvars, dvars, pvars>>

\* A frame read that keeps the whole frame as the residual.
ReadBinaryFrameKeepsAll ==
    \E lenb \in 0..MaxBuf, k \in 0..MaxFrameLen :
        /\ Len(readBuff) = 0
        /\ wsRecvCount < MaxFrames
        /\ LET bytes == PeerBytes(peerSent, k)
               n == Copy(lenb, bytes)
           IN
            /\ readBuff' = bytes
            /\ rdOut' = rdOut \o Take(bytes, n)
            /\ wsRecvd' = wsRecvd \o bytes
            /\ rRet' = [n |-> n, err |-> "nil", errArg |-> 0,
                        msgType |-> BinaryMessage, lenb |-> lenb,
                        data |-> Take(bytes, n), pre |-> readBuff,
                        recv0 |-> wsRecvCount, frame |-> bytes]
        /\ peerSent' = peerSent + k
        /\ wsRecvCount' = wsRecvCount + 1
        /\ UNCHANGED <<wvars, dvars, pvars>>

\* Conn.Read, residual buffer empty, ws.ReadMessage returns a binary frame.
ReadBinaryFrame ==
    \E lenb \in 0..MaxBuf, k \in 0..MaxFrameLen :
        /\ Len(readBuff) = 0
        /\ wsRecvCount < MaxFrames
        /\ LET bytes == PeerBytes(peerSent, k)
               n == Copy(lenb, bytes)
           IN
            /\ readBuff' = Drop(bytes, n)
            /\ rdOut' = rdOut \o Take(bytes, n)
            /\ wsRecvd' = wsRecvd \o bytes
            /\ rRet' = [n |-> n, err |-> "nil", errArg |-> 0,
                        msgType |-> BinaryMessage, lenb |-> lenb,
                        data |-> Take(bytes, n), pre |-> readBuff,
                        recv0 |-> wsRecvCount, frame |-> bytes]
        /\ peerSent' = peerSent + k
        /\ wsRecvCount' = wsRecvCount + 1
        /\ UNCHANGED <<wvars, dvars, pvars>>

\* A frame read that checks the type only after it has stored the payload.
ReadOtherFrameBuffers ==
    \E lenb \in 0..MaxBuf, k \in 0..MaxFrameLen :
        /\ Len(readBuff) = 0
        /\ wsRecvCount < MaxFrames
        /\ readBuff' = PeerBytes(peerSent, k)
        /\ rRet' = [n |-> 0, err |-> "InvalidMessageTypeError",
                    errArg |-> TextMessage, msgType |-> TextMessage,
                    lenb |-> lenb, data |-> <<>>, pre |-> readBuff,
                    recv0 |-> wsRecvCount,
                    frame |-> PeerBytes(peerSent, k)]
        /\ peerSent' = peerSent + k
        /\ wsRecvCount' = wsRecvCount + 1
        /\ UNCHANGED <<rdOut, wsRecvd>>
        /\ UNCHANGED <<wvars, dvars, pvars>>

\* Conn.Read, residual buffer empty, ws.ReadMessage returns a frame of
\* another type: InvalidMessageTypeError(msgType), the payload is dropped.
ReadOtherFrame ==
    \E lenb \in 0..MaxBuf, k \in 0..MaxFrameLen, msgType \in {TextMessage} :
        /\ Len(readBuff) = 0
        /\ wsRecvCount < MaxFrames
        /\ msgType # BinaryMessage
        /\ rRet' = [n |-> 0, err |-> "InvalidMessageTypeError",
                    errArg |-> msgType, msgType |-> msgType,
                    lenb |-> lenb, data |-> <<>>, pre |-> readBuff,
                    recv0 |-> wsRecvCount,
                    frame |-> PeerBytes(peerSent, k)]
        /\ peerSent' = peerSent + k
        /\ wsRecvCount' = wsRecvCount + 1
        /\ UNCHANGED <<readBuff, rdOut, wsRecvd>>
        /\ UNCHANGED <<wvars, dvars, pvars>>

\* Conn.Read, residual buffer empty, ws.ReadMessage fails.
ReadTransportError ==
    \E lenb \in 0..MaxBuf :
        /\ Len(readBuff) = 0
        /\ wsRecvCount < MaxFrames
        /\ rRet' = [n |-> 0, err |-> "transport", errArg |-> 0,
                    msgType |-> 0, lenb |-> lenb, data |-> <<>>,
                    pre |-> readBuff, recv0 |-> wsRecvCount,
                    frame |-> <<>>]
        /\ wsRecvCount' = wsRecvCount + 1
        /\ UNCHANGED <<readBuff, peerSent, wsRecvd, rdOut>>
        /\ UNCHANGED <<wvars, dvars, pvars>>

(***************************************************************************)
(* The write side.                                                         *)
(*                                                                         *)
(* Conn.Write is a loop with one transport send per iteration, and it need *)
(* not terminate (a header that declares -4 makes totalSize 0). A call is  *)
(* therefore one step that enters the function and one step per loop       *)
(* iteration; while wpc = "loop" only the next iteration is enabled, and   *)
(* what a call returned is read once wpc is back to "idle". Iterations     *)
(* that consume no byte are followed MaxSpin times.                        *)
(***************************************************************************)
\* What the caller writes: a stream made of these byte strings, passed to
\* Write in chunks of any length. Write looks only at the lengths and at
\* the 4 header bytes, so the catalogue holds one string per kind of
\* header: declared length 0 and 2, and -1, -4, -5 (high bit set).
Catalogue ==
    { <<0, 0, 0, 0>>,
      <<0, 0, 0, 2, 8, 9>>,
      <<255, 255, 255, 255>>,
      <<255, 255, 255, 252>>,
      <<255, 255, 255, 251>> }

RECURSIVE StreamsOf(_)
StreamsOf(k) ==
    IF k = 0 THEN {<<>>}
    ELSE LET shorter == StreamsOf(k - 1) IN
         shorter \cup {s \o it : s \in shorter, it \in Catalogue}

Streams == StreamsOf(MaxItems)

\* size := int32(binary.BigEndian.Uint32(b)): the first four bytes as a
\* big-endian two's-complement 32-bit integer.
DeclaredSize(b) ==
    (IF b[1] >= 128 THEN b[1] - 256 ELSE b[1]) * 16777216
        + b[2] * 65536 + b[3] * 256 + b[4]

\* A frame that leaves the length header out.
FrameWithoutHeader(buf, totalSize) ==
    <<BinaryMessage, SubSeq(buf, int32Size + 1, totalSize)>>

\* ws.WriteMessage(websocket.BinaryMessage, buf[:totalSize]): the frame.
Frame(buf, totalSize) == <<BinaryMessage, Take(buf, totalSize)>>

NoReturn == [n |-> 0, err |-> "none", expected |-> 0, actual |-> 0]

Return(n, err) == [n |-> n, err |-> err, expected |-> 0, actual |-> 0]

\* A PartialWriteError that reports 0 bytes whatever was sent before.
PartialReturnZero(n, expected, actual) ==
    [n |-> 0, err |-> "PartialWriteError", expected |-> expected,
     actual |-> actual]

\* return written, PartialWriteError{expected: ..., actual: ...}
PartialReturn(n, expected, actual) ==
    [n |-> n, err |-> "PartialWriteError", expected |-> expected,
     actual |-> actual]

\* A short-payload error that counts the header bytes in.
ShortPayloadWithHeader(b, size, n) ==
    PartialReturn(n, int32Size + size, Len(b))

\* The strict variant's error for a payload shorter than declared.
ShortPayload(b, size, n) ==
    PartialReturn(n, size, Len(Drop(b, int32Size)))

\* A short-header error that reports the length of the whole input.
ShortHeaderOfInput(b, n) == PartialReturn(n, int32Size, n + Len(b))

\* The strict variant's error for fewer than four bytes.
ShortHeader(b, n) == PartialReturn(n, int32Size, Len(b))

\* A counter that forgets the bytes pending from earlier calls.
WrittenStartZero(buf) == 0

\* written := -len(c.wBuf)
WrittenStart(buf) == 0 - Len(buf)

WriteInit(policies) ==
    /\ policy \in policies
    /\ stream \in Streams
    /\ pos = 0
    /\ wpc = "idle"
    /\ wb = <<>>
    /\ wBuf = <<>>
    /\ written = 0
    /\ wArg = <<>>
    /\ wPend = 0
    /\ wSent0 = 0
    /\ wsOut = <<>>
    /\ sendFails = 0
    /\ spins = 0
    /\ iters = 0
    /\ wRet = NoReturn

\* The state of a Conn nothing has been written to.
WriteIdle ==
    /\ policy = "strict"
    /\ stream = <<>>
    /\ pos = 0
    /\ wpc = "idle"
    /\ wb = <<>>
    /\ wBuf = <<>>
    /\ written = 0
    /\ wArg = <<>>
    /\ wPend = 0
    /\ wSent0 = 0
    /\ wsOut = <<>>
    /\ sendFails = 0
    /\ spins = 0
    /\ iters = 0
    /\ wRet = NoReturn

\* The caller's next chunk: the k next bytes of its stream.
Chunk(k) == SubSeq(stream, pos + 1, pos + k)

\* Strict Conn.Write is called with b: written := 0.
StrictWriteCall ==
    \E k \in 0..Min(MaxChunk, Len(stream) - pos) :
        /\ policy = "strict"
        /\ wpc = "idle"
        /\ wpc' = "loop"
        /\ wArg' = Chunk(k)
        /\ wb' = Chunk(k)
        /\ pos' = pos + k
        /\ written' = 0
        /\ wPend' = 0
        /\ wSent0' = Len(wsOut)
        /\ iters' = 0
        /\ spins' = 0
        /\ wRet' = NoReturn
        /\ UNCHANGED <<policy, stream, wBuf, wsOut, sendFails>>
        /\ UNCHANGED <<rvars, dvars, pvars>>

\* The loop condition fails: return written, nil.
StrictReturnDone ==
    /\ policy = "strict"
    /\ wpc = "loop"
    /\ Len(wb) = 0
    /\ wpc' = "idle"
    /\ wRet' = Return(written, "nil")
    /\ UNCHANGED <<policy, stream, pos, wb, wBuf, written, wArg, wPend,
                   wSent0, wsOut, sendFails, spins, iters>>
    /\ UNCHANGED <<rvars, dvars, pvars>>

\* len(b) < int32Size: PartialWriteError{int32Size, len(b)}.
StrictReturnShortHeader ==
    /\ policy = "strict"
    /\ wpc = "loop"
    /\ Len(wb) > 0
    /\ Len(wb) < int32Size
    /\ wpc' = "idle"
    /\ wRet' = ShortHeader(wb, written)
    /\ iters' = iters + 1
    /\ UNCHANGED <<policy, stream, pos, wb, wBuf, written, wArg, wPend,
                   wSent0, wsOut, sendFails, spins>>
    /\ UNCHANGED <<rvars, dvars, pvars>>

\* len(b[int32Size:]) < int(size): PartialWriteError{size, len(b) - 4}.
StrictReturnShortPayload ==
    /\ policy = "strict"
    /\ wpc = "loop"
    /\ Len(wb) >= int32Size
    /\ Len(Drop(wb, int32Size)) < DeclaredSize(wb)
    /\ wpc' = "idle"
    /\ wRet' = ShortPayload(wb, DeclaredSize(wb), written)
    /\ iters' = iters + 1
    /\ UNCHANGED <<policy, stream, pos, wb, wBuf, written, wArg, wPend,
                   wSent0, wsOut, sendFails, spins>>
    /\ UNCHANGED <<rvars, dvars, pvars>>

\* b[:totalSize] with totalSize < 0: the slice expression panics.
StrictPanic ==
    /\ policy = "strict"
    /\ wpc = "loop"
    /\ Len(wb) >= int32Size
    /\ Len(Drop(wb, int32Size)) >= DeclaredSize(wb)
    /\ int32Size + DeclaredSize(wb) < 0
    /\ wpc' = "panicked"
    /\ iters' = iters + 1
    /\ UNCHANGED <<policy, stream, pos, wb, wBuf, written, wArg, wPend,
                   wSent0, wsOut, sendFails, spins, wRet>>
    /\ UNCHANGED <<rvars, dvars, pvars>>

\* ws.WriteMessage succeeds: written += totalSize; b = b[totalSize:].
StrictSendOk ==
    /\ policy = "strict"
    /\ wpc = "loop"
    /\ Len(wb) >= int32Size
    /\ Len(Drop(wb, int32Size)) >= DeclaredSize(wb)
    /\ LET totalSize == int32Size + DeclaredSize(wb) IN
        /\ totalSize >= 0
        /\ totalSize = 0 => spins < MaxSpin
        /\ wsOut' = Append(wsOut, Frame(wb, totalSize))
        /\ written' = written + totalSize
        /\ wb' = Drop(wb, totalSize)
        /\ spins' = IF totalSize = 0 THEN spins + 1 ELSE 0
    /\ iters' = iters + 1
    /\ UNCHANGED <<policy, stream, pos, wpc, wBuf, wArg, wPend, wSent0,
                   sendFails, wRet>>
    /\ UNCHANGED <<rvars, dvars, pvars>>

\* ws.WriteMessage fails: return written, wrapped error.
StrictSendFail ==
    /\ policy = "strict"
    /\ wpc = "loop"
    /\ Len(wb) >= int32Size
    /\ Len(Drop(wb, int32Size)) >= DeclaredSize(wb)
    /\ int32Size + DeclaredSize(wb) >= 0
    /\ sendFails < MaxSendFails
    /\ sendFails' = sendFails + 1
    /\ wpc' = "idle"
    /\ wRet' = Return(written, "transport")
    /\ iters' = iters + 1
    /\ UNCHANGED <<policy, stream, pos, wb, wBuf, written, wArg, wPend,
                   wSent0, wsOut, spins>>
    /\ UNCHANGED <<rvars, dvars, pvars>>

\* Accumulating Conn.Write is called with b:
\* written := -len(c.wBuf); c.wBuf = append(c.wBuf, b...).
AccWriteCall ==
    \E k \in 0..Min(MaxChunk, Len(stream) - pos) :
        /\ policy = "accumulating"
        /\ wpc = "idle"
        /\ wpc' = "loop"
        /\ wArg' = Chunk(k)
        /\ pos' = pos + k
        /\ written' = WrittenStart(wBuf)
        /\ wBuf' = wBuf \o Chunk(k)
        /\ wPend' = Len(wBuf)
        /\ wSent0' = Len(wsOut)
        /\ iters' = 0
        /\ spins' = 0
        /\ wRet' = NoReturn
        /\ UNCHANGED <<policy, stream, wb, wsOut, sendFails>>
        /\ UNCHANGED <<rvars, dvars, pvars>>

\* The loop condition fails: return max(written, 0), nil.
AccReturnDone ==
    /\ policy = "accumulating"
    /\ wpc = "loop"
    /\ Len(wBuf) = 0
    /\ wpc' = "idle"
    /\ wRet' = Return(max(written, 0), "nil")
    /\ UNCHANGED <<policy, stream, pos, wb, wBuf, written, wArg, wPend,
                   wSent0, wsOut, sendFails, spins, iters>>
    /\ UNCHANGED <<rvars, dvars, pvars>>

\* len(c.wBuf) < int32Size: return len(b), nil.
AccReturnShortHeader ==
    /\ policy = "accumulating"
    /\ wpc = "loop"
    /\ Len(wBuf) > 0
    /\ Len(wBuf) < int32Size
    /\ wpc' = "idle"
    /\ wRet' = Return(Len(wArg), "nil")
    /\ iters' = iters + 1
    /\ UNCHANGED <<policy, stream, pos, wb, wBuf, written, wArg, wPend,
                   wSent0, wsOut, sendFails, spins>>
    /\ UNCHANGED <<rvars, dvars, pvars>>

\* len(c.wBuf[int32Size:]) < int(size): return len(b), nil.
AccReturnShortPayload ==
    /\ policy = "accumulating"
    /\ wpc = "loop"
    /\ Len(wBuf) >= int32Size
    /\ Len(Drop(wBuf, int32Size)) < DeclaredSize(wBuf)
    /\ wpc' = "idle"
    /\ wRet' = Return(Len(wArg), "nil")
    /\ iters' = iters + 1
    /\ UNCHANGED <<policy, stream, pos, wb, wBuf, written, wArg, wPend,
                   wSent0, wsOut, sendFails, spins>>
    /\ UNCHANGED <<rvars, dvars, pvars>>

\* c.wBuf[:totalSize] with totalSize < 0: the slice expression panics.
AccPanic ==
    /\ policy = "accumulating"
    /\ wpc = "loop"
    /\ Len(wBuf) >= int32Size
    /\ Len(Drop(wBuf, int32Size)) >= DeclaredSize(wBuf)
    /\ int32Size + DeclaredSize(wBuf) < 0
    /\ wpc' = "panicked"
    /\ iters' = iters + 1
    /\ UNCHANGED <<policy, stream, pos, wb, wBuf, written, wArg, wPend,
                   wSent0, wsOut, sendFails, spins, wRet>>
    /\ UNCHANGED <<rvars, dvars, pvars>>

\* ws.WriteMessage succeeds: written += totalSize;
\* c.wBuf = c.wBuf[totalSize:].
AccSendOk ==
    /\ policy = "accumulating"
    /\ wpc = "loop"
    /\ Len(wBuf) >= int32Size
    /\ Len(Drop(wBuf, int32Size)) >= DeclaredSize(wBuf)
    /\ LET totalSize == int32Size + DeclaredSize(wBuf) IN
        /\ totalSize >= 0
        /\ totalSize = 0 => spins < MaxSpin
        /\ wsOut' = Append(wsOut, Frame(wBuf, totalSize))
        /\ written' = written + totalSize
        /\ wBuf' = Drop(wBuf, totalSize)
        /\ spins' = IF totalSize = 0 THEN spins + 1 ELSE 0
    /\ iters' = iters + 1
    /\ UNCHANGED <<policy, stream, pos, wpc, wb, wArg, wPend, wSent0,
                   sendFails, wRet>>
    /\ UNCHANGED <<rvars, dvars, pvars>>

\* A failed send that still takes the message off the buffer.
AccSendFailDropsMessage ==
    /\ policy = "accumulating"
    /\ wpc = "loop"
    /\ Len(wBuf) >= int32Size
    /\ Len(Drop(wBuf, int32Size)) >= DeclaredSize(wBuf)
    /\ int32Size + DeclaredSize(wBuf) >= 0
    /\ sendFails < MaxSendFails
    /\ sendFails' = sendFails + 1
    /\ wpc' = "idle"
    /\ wBuf' = Drop(wBuf, int32Size + DeclaredSize(wBuf))
    /\ wRet' = Return(max(written, 0), "transport")
    /\ iters' = iters + 1
    /\ UNCHANGED <<policy, stream, pos, wb, written, wArg, wPend,
                   wSent0, wsOut, spins>>
    /\ UNCHANGED <<rvars, dvars, pvars>>

\* ws.WriteMessage fails: return max(written, 0), wrapped error.
AccSendFail ==
    /\ policy = "accumulating"
    /\ wpc = "loop"
    /\ Len(wBuf) >= int32Size
    /\ Len(Drop(wBuf, int32Size)) >= DeclaredSize(wBuf)
    /\ int32Size + DeclaredSize(wBuf) >= 0
    /\ sendFails < MaxSendFails
    /\ sendFails' = sendFails + 1
    /\ wpc' = "idle"
    /\ wRet' = Return(max(written, 0), "transport")
    /\ iters' = iters + 1
    /\ UNCHANGED <<policy, stream, pos, wb, wBuf, written, wArg, wPend,
                   wSent0, wsOut, spins>>
    /\ UNCHANGED <<rvars, dvars, pvars>>

(***************************************************************************)
(* The connector: Dialer.Dial and Dialer.DialContext (src/shim/shim.go).   *)
(* The handshake is websocket.DefaultDialer.Dial, which takes time and     *)
(* succeeds or fails; the caller's context may be cancelled meanwhile.     *)
(***************************************************************************)
Networks == {"tcp", "tcp4", "udp", "unix", "foo", ""}

NoDialCall == [via |-> "none", network |-> "", ctxDone0 |-> FALSE,
               ctxDone |-> FALSE, shakes0 |-> 0]

NoDialRet == [conn |-> FALSE, err |-> "none", errArg |-> "",
              ctxDone |-> FALSE]

DialIdle ==
    /\ dpc = "idle"
    /\ dCalls = 0
    /\ dShakes = 0
    /\ dCall = NoDialCall
    /\ dRet = NoDialRet

\* a test that would let "tcp4" through as well
InvalidNetworkLoose(network) == network \notin {"tcp", "tcp4"}

\* the test of DialContext: network != "tcp"
InvalidNetwork(network) == network # "tcp"

\* InvalidNetworkError(network): the error carries the network string
InvalidNetworkError(network) ==
    [conn |-> FALSE, err |-> "InvalidNetworkError", errArg |-> network,
     ctxDone |-> FALSE]

\* the context a call is made with: Dial passes context.Background(),
\* which is never cancelled; DialContext passes the caller's context
Contexts(via) == IF via = "Dial" THEN {FALSE} ELSE BOOLEAN

\* Dial / DialContext with a network that is rejected before any handshake
DialInvalidNetwork ==
    /\ dpc = "idle"
    /\ dCalls < MaxDials
    /\ \E via \in {"Dial", "DialContext"}, network \in Networks :
         \E done \in Contexts(via) :
            /\ InvalidNetwork(network)
            /\ dCall' = [via |-> via, network |-> network,
                         ctxDone0 |-> done, ctxDone |-> done,
                         shakes0 |-> dShakes]
            /\ dRet' = [InvalidNetworkError(network) EXCEPT !.ctxDone = done]
    /\ dCalls' = dCalls + 1
    /\ UNCHANGED <<dpc, dShakes>>
    /\ UNCHANGED <<rvars, wvars, pvars>>

\* Dial / DialContext with network "tcp": the handshake is started
DialHandshakeBegin ==
    /\ dpc = "idle"
    /\ dCalls < MaxDials
    /\ \E via \in {"Dial", "DialContext"}, network \in Networks :
         \E done \in Contexts(via) :
            /\ ~InvalidNetwork(network)
            /\ dCall' = [via |-> via, network |-> network,
                         ctxDone0 |-> done, ctxDone |-> done,
                         shakes0 |-> dShakes]
    /\ dpc' = "handshake"
    /\ dShakes' = dShakes + 1
    /\ dCalls' = dCalls + 1
    /\ dRet' = NoDialRet
    /\ UNCHANGED <<rvars, wvars, pvars>>

\* the caller cancels the context it passed while the handshake is running
DialCtxCancel ==
    /\ dpc = "handshake"
    /\ dCall.via = "DialContext"
    /\ ~dCall.ctxDone
    /\ dCall' = [dCall EXCEPT !.ctxDone = TRUE]
    /\ UNCHANGED <<dpc, dCalls, dShakes, dRet>>
    /\ UNCHANGED <<rvars, wvars, pvars>>

\* websocket.DefaultDialer.Dial(u.String(), nil) returned a connection
DialHandshakeOk ==
    /\ dpc = "handshake"
    /\ dpc' = "idle"
    /\ dRet' = [conn |-> TRUE, err |-> "nil", errArg |-> "",
                ctxDone |-> dCall.ctxDone]
    /\ UNCHANGED <<dCall, dCalls, dShakes>>
    /\ UNCHANGED <<rvars, wvars, pvars>>

\* websocket.DefaultDialer.Dial(u.String(), nil) returned an error
DialHandshakeFail ==
    /\ dpc = "handshake"
    /\ dpc' = "idle"
    /\ dRet' = [conn |-> FALSE, err |-> "shim: dial websocket failed",
                errArg |-> "", ctxDone |-> dCall.ctxDone]
    /\ UNCHANGED <<dCall, dCalls, dShakes>>
    /\ UNCHANGED <<rvars, wvars, pvars>>

(***************************************************************************)
(* The forwarding service (src/unnamed/part_002): main, the accept loop,   *)
(* handleClient, dialBroker, the copy tasks (pipeFunc) and the watchdogs.  *)
(* Connections are numbered in the order the listener accepts them.        *)
(* Every goroutine is a process; a step is one blocking operation          *)
(* returning together with the non-blocking code that follows it.          *)
(***************************************************************************)
pipeBufSize == 4096
dialBrokerRetries == 5
dialBrokerWait == 200
dialBrokerBackoff == 2

\* a copy task before it has read anything: src is what has arrived at
\* its source and is not read yet (one segment per frame; a byte stream is
\* one segment), rd the bytes its reads have returned, buf the bytes
\* buf[:n] of the last read, wr the chunks passed to the destination's
\* Write, at the next call of the loop ("read": src.Read, "write":
\* dst.Write), sends the number of segments the peer has sent
NoPipe ==
    [sends |-> 0, src |-> <<>>, rd |-> <<>>, buf |-> <<>>, wr |-> <<>>,
     at |-> "read"]

\* the connection record before ln.Accept has returned it
FreeConn ==
    [pc |-> "free", attempts |-> 0, wait |-> dialBrokerWait, sleeps |-> <<>>,
     dialErr |-> 0, up |-> "none", down |-> "none", wdConn |-> "none",
     wdWs |-> "none", cErr |-> "none", connClosed |-> FALSE,
     wsOpen |-> FALSE, wsClosed |-> FALSE, ret |-> "none", cause |-> 0,
     pipe |-> [up |-> NoPipe, down |-> NoPipe]]

\* the service after main has started the accept loop, with the
\* connections that may arrive, those of them whose dial attempts may fail
\* and the other failures the environment may inject
ProxyInit(ids, failing, faults) ==
    /\ conns = [c \in ids |-> FreeConn]
    /\ mainpc = "select"
    /\ cancelled = FALSE
    /\ gErr = "none"
    /\ lnClosed = FALSE
    /\ acceptpc = "run"
    /\ acceptSaw = "none"
    /\ exitErr = "none"
    /\ dialFailsLeft =
           [c \in ids |-> IF c \in failing THEN dialBrokerRetries ELSE 0]
    /\ faultsLeft = faults

ProxyIdle == ProxyInit({}, {}, 0)

Conns == DOMAIN conns

\* log.Fatal and the return of main end every goroutine
Alive == mainpc \notin {"exited", "fatal"}

\* errgroup: the group keeps the first non-nil error a task returns
FirstErr(old, new) == IF old = "none" /\ new # "nil" THEN new ELSE old

\* ctx.Done() of the context of main after errgroup.WithContext: cancel()
\* was called, a task of the top-level group returned an error, or Wait
\* has returned
CtxDone == cancelled \/ gErr # "none" \/ mainpc = "exited"

\* a connection context that only follows its parent
ConnCtxDoneParentOnly(c) == CtxDone

\* ctx.Done() of the context of handleClient after errgroup.WithContext:
\* the parent is done, a task of the connection returned an error, or
\* Wait has returned
ConnCtxDone(c) ==
    \/ CtxDone
    \/ conns[c].cErr # "none"
    \/ conns[c].pc = "returned"

\* a connection task that returns the error of handleClient
TaskResultPropagates(err) == err

\* what the task of a connection returns to the top-level group after
\* handleClient returned err: the error is printed and nil is returned
TaskResult(err) == "nil"

\* ---- main ----

\* case s := <-sig: cancel()
Interrupt ==
    /\ mainpc = "select"
    /\ cancelled' = TRUE
    /\ mainpc' = "close"
    /\ UNCHANGED <<conns, gErr, lnClosed, acceptpc, acceptSaw, exitErr,
                   dialFailsLeft, faultsLeft>>
    /\ UNCHANGED <<rvars, wvars, dvars>>

\* case <-ctx.Done(): the listener failed and started the shutdown
MainCtxDone ==
    /\ mainpc = "select"
    /\ CtxDone
    /\ mainpc' = "close"
    /\ UNCHANGED <<conns, cancelled, gErr, lnClosed, acceptpc, acceptSaw,
                   exitErr, dialFailsLeft, faultsLeft>>
    /\ UNCHANGED <<rvars, wvars, dvars>>

\* ln.Close() returned nil
MainCloseListener ==
    /\ mainpc = "close"
    /\ lnClosed' = TRUE
    /\ mainpc' = "wait"
    /\ UNCHANGED <<conns, cancelled, gErr, acceptpc, acceptSaw, exitErr,
                   dialFailsLeft, faultsLeft>>
    /\ UNCHANGED <<rvars, wvars, dvars>>

\* ln.Close() returned an error: log.Fatal
MainCloseListenerFail ==
    /\ mainpc = "close"
    /\ faultsLeft > 0
    /\ faultsLeft' = faultsLeft - 1
    /\ mainpc' = "fatal"
    /\ exitErr' = "close tcp listener failed"
    /\ UNCHANGED <<conns, cancelled, gErr, lnClosed, acceptpc, acceptSaw,
                   dialFailsLeft>>
    /\ UNCHANGED <<rvars, wvars, dvars>>

\* a Wait that only waits for the accept loop
GroupReturnedAcceptOnly == acceptpc = "returned"

\* the tasks of the top-level group: the accept loop and one task per
\* accepted connection
GroupReturned ==
    /\ acceptpc = "returned"
    /\ \A c \in Conns : conns[c].pc \in {"free", "returned"}

\* g.Wait() returns once the accept loop and every connection task have
\* returned; a non-nil error is fatal
MainWait ==
    /\ mainpc = "wait"
    /\ GroupReturned
    /\ IF gErr # "none"
       THEN mainpc' = "fatal" /\ exitErr' = gErr
       ELSE mainpc' = "exited" /\ exitErr' = "none"
    /\ UNCHANGED <<conns, cancelled, gErr, lnClosed, acceptpc, acceptSaw,
                   dialFailsLeft, faultsLeft>>
    /\ UNCHANGED <<rvars, wvars, dvars>>

\* ---- the accept loop ----

\* ln.Accept() returned a connection: g.Go(handleClient ...)
Accept(c) ==
    /\ Alive
    /\ acceptpc = "run"
    /\ ~lnClosed
    /\ conns[c].pc = "free"
    /\ \A d \in Conns : d < c => conns[d].pc # "free"
    /\ conns' = [conns EXCEPT ![c].pc = "accepted"]
    /\ UNCHANGED <<mainpc, cancelled, gErr, lnClosed, acceptpc, acceptSaw,
                   exitErr, dialFailsLeft, faultsLeft>>
    /\ UNCHANGED <<rvars, wvars, dvars>>

\* an accept loop that returns nil on every Accept error
AcceptFailedReturnsNil ==
    /\ Alive
    /\ acceptpc = "run"
    /\ ~CtxDone
    /\ faultsLeft > 0
    /\ faultsLeft' = faultsLeft - 1
    /\ acceptSaw' = "running"
    /\ acceptpc' = "returned"
    /\ UNCHANGED <<conns, mainpc, cancelled, gErr, lnClosed, exitErr,
                   dialFailsLeft>>
    /\ UNCHANGED <<rvars, wvars, dvars>>

\* ln.Accept() returned an error and ctx is not done: the error is
\* returned to the top-level group
AcceptFailed ==
    /\ Alive
    /\ acceptpc = "run"
    /\ ~CtxDone
    /\ faultsLeft > 0
    /\ faultsLeft' = faultsLeft - 1
    /\ acceptSaw' = "running"
    /\ acceptpc' = "returned"
    /\ gErr' = FirstErr(gErr, "tcp listener failed")
    /\ UNCHANGED <<conns, mainpc, cancelled, lnClosed, exitErr,
                   dialFailsLeft>>
    /\ UNCHANGED <<rvars, wvars, dvars>>

\* ln.Accept() returned an error (the listener was closed, or it failed)
\* and ctx is done: the loop returns nil
AcceptStopped ==
    /\ Alive
    /\ acceptpc = "run"
    /\ CtxDone
    /\ \/ lnClosed /\ faultsLeft' = faultsLeft
       \/ ~lnClosed /\ faultsLeft > 0 /\ faultsLeft' = faultsLeft - 1
    /\ acceptSaw' = "cancelled"
    /\ acceptpc' = "returned"
    /\ gErr' = FirstErr(gErr, "nil")
    /\ UNCHANGED <<conns, mainpc, cancelled, lnClosed, exitErr,
                   dialFailsLeft>>
    /\ UNCHANGED <<rvars, wvars, dvars>>

\* ---- handleClient and dialBroker ----

\* the goroutine of the connection runs: handleClient calls dialBroker
HandleClientStart(c) ==
    /\ Alive
    /\ conns[c].pc = "accepted"
    /\ conns' = [conns EXCEPT ![c].pc = "dialing"]
    /\ UNCHANGED <<mainpc, cancelled, gErr, lnClosed, acceptpc, acceptSaw,
                   exitErr, dialFailsLeft, faultsLeft>>
    /\ UNCHANGED <<rvars, wvars, dvars>>

\* a dialBroker that sleeps after every failed attempt
SleepsAfterEvery(i) == TRUE

\* if i < dialBrokerRetries-1: the loop sleeps after the failed attempt i
SleepsAfter(i) == i < dialBrokerRetries - 1

\* one iteration of the loop of dialBroker in which DialContext fails:
\* sleep and back off unless this was the last attempt, remember the error
DialAttemptFail(c) ==
    /\ Alive
    /\ conns[c].pc = "dialing"
    /\ conns[c].attempts < dialBrokerRetries
    /\ dialFailsLeft[c] > 0
    /\ dialFailsLeft' = [dialFailsLeft EXCEPT ![c] = @ - 1]
    /\ LET i == conns[c].attempts
           slept == SleepsAfter(i)
       IN conns' = [conns EXCEPT
              ![c].attempts = i + 1,
              ![c].dialErr = i + 1,
              ![c].sleeps = IF slept THEN Append(@, conns[c].wait) ELSE @,
              ![c].wait = IF slept THEN @ * dialBrokerBackoff ELSE @]
    /\ UNCHANGED <<mainpc, cancelled, gErr, lnClosed, acceptpc, acceptSaw,
                   exitErr, faultsLeft>>
    /\ UNCHANGED <<rvars, wvars, dvars>>

\* an iteration in which DialContext succeeds: dialBroker returns the
\* adapter, handleClient makes the connection's group and starts the two
\* copy tasks and the two watchdogs
DialAttemptOk(c) ==
    /\ Alive
    /\ conns[c].pc = "dialing"
    /\ conns[c].attempts < dialBrokerRetries
    /\ conns' = [conns EXCEPT
           ![c].attempts = @ + 1,
           ![c].wsOpen = TRUE,
           ![c].pc = "piping",
           ![c].up = "run",
           ![c].wdConn = "wait",
           ![c].down = "run",
           ![c].wdWs = "wait"]
    /\ UNCHANGED <<mainpc, cancelled, gErr, lnClosed, acceptpc, acceptSaw,
                   exitErr, dialFailsLeft, faultsLeft>>
    /\ UNCHANGED <<rvars, wvars, dvars>>

\* a handleClient that returns the dial error without closing conn
DialBrokerFailedLeaksConn(c) ==
    /\ Alive
    /\ conns[c].pc = "dialing"
    /\ conns[c].attempts = dialBrokerRetries
    /\ conns' = [conns EXCEPT
           ![c].ret = "dial broker failed",
           ![c].cause = conns[c].dialErr,
           ![c].pc = "returned"]
    /\ UNCHANGED <<mainpc, cancelled, gErr, lnClosed, acceptpc, acceptSaw,
                   exitErr, dialFailsLeft, faultsLeft>>
    /\ UNCHANGED <<rvars, wvars, dvars>>

\* a handleClient that starts the tasks although no dial succeeded
DialBrokerFailedPipes(c) ==
    /\ Alive
    /\ conns[c].pc = "dialing"
    /\ conns[c].attempts = dialBrokerRetries
    /\ conns' = [conns EXCEPT
           ![c].pc = "piping",
           ![c].up = "run",
           ![c].wdConn = "wait",
           ![c].down = "run",
           ![c].wdWs = "wait"]
    /\ UNCHANGED <<mainpc, cancelled, gErr, lnClosed, acceptpc, acceptSaw,
                   exitErr, dialFailsLeft, faultsLeft>>
    /\ UNCHANGED <<rvars, wvars, dvars>>

\* the loop of dialBroker ran out: handleClient closes the client
\* connection (defer conn.Close()) and returns the wrapped dialErr; the
\* task prints it and returns to the top-level group
DialBrokerFailed(c) ==
    /\ Alive
    /\ conns[c].pc = "dialing"
    /\ conns[c].attempts = dialBrokerRetries
    /\ conns' = [conns EXCEPT
           ![c].connClosed = TRUE,
           ![c].ret = "dial broker failed",
           ![c].cause = conns[c].dialErr,
           ![c].pc = "returned"]
    /\ gErr' = FirstErr(gErr, TaskResult("dial broker failed"))
    /\ UNCHANGED <<mainpc, cancelled, lnClosed, acceptpc, acceptSaw, exitErr,
                   dialFailsLeft, faultsLeft>>
    /\ UNCHANGED <<rvars, wvars, dvars>>

\* ---- the tasks of a piping connection ----
Dirs == {"up", "down"}

\* the source endpoint of a copy task: up copies conn -> ws
SrcClosed(c, dir) ==
    IF dir = "up" THEN conns[c].connClosed ELSE conns[c].wsClosed

\* the errors a failed Read or Write of a copy task gives: io.EOF, an
\* error that wraps io.EOF, any other error
PipeErrors == {"EOF", "wrapped EOF", "io error"}

\* a pipeFunc that returns the error of pipe whatever the context
PipeResultErr(c, err) == err

\* pipeFunc after pipe returned err: nil if ctx is done, else err
PipeResult(c, err) == IF ConnCtxDone(c) THEN "nil" ELSE err

CopyReturn(c, dir, err) ==
    LET res == PipeResult(c, err)
    IN conns' = [conns EXCEPT
           ![c][dir] = res,
           ![c].cErr = FirstErr(@, res)]

\* the read of the source fails (end of stream from the peer, a network
\* error)
CopyFault(c, dir) ==
    /\ Alive
    /\ conns[c].pc = "piping"
    /\ conns[c][dir] = "run"
    /\ conns[c].pipe[dir].at = "read"
    /\ faultsLeft > 0
    /\ faultsLeft' = faultsLeft - 1
    /\ \E err \in PipeErrors : CopyReturn(c, dir, err)
    /\ UNCHANGED <<mainpc, cancelled, gErr, lnClosed, acceptpc, acceptSaw,
                   exitErr, dialFailsLeft>>
    /\ UNCHANGED <<rvars, wvars, dvars>>

\* the source of the copy task has been closed: its read returns an error
CopyUnblocked(c, dir) ==
    /\ Alive
    /\ conns[c].pc = "piping"
    /\ conns[c][dir] = "run"
    /\ conns[c].pipe[dir].at = "read"
    /\ SrcClosed(c, dir)
    /\ CopyReturn(c, dir, "use of closed connection")
    /\ UNCHANGED <<mainpc, cancelled, gErr, lnClosed, acceptpc, acceptSaw,
                   exitErr, dialFailsLeft, faultsLeft>>
    /\ UNCHANGED <<rvars, wvars, dvars>>

\* ---- the data a copy task moves ----

\* the destination endpoint of a copy task
DstClosed(c, dir) ==
    IF dir = "up" THEN conns[c].wsClosed ELSE conns[c].connClosed

\* the bytes of a queue of segments
RECURSIVE Avail(_)
Avail(q) == IF q = <<>> THEN <<>> ELSE Head(q) \o Avail(Tail(q))

\* the k bytes of a peer's stream that follow its first off bytes
PipeBytes(off, k) == [i \in 1..k |-> (off + i - 1) % 251]

\* the size of the i-th segment a peer sends: more than a copy task's
\* buffer holds, then a single byte, and so on
PipeSeg(i) == IF i % 2 = 1 THEN pipeBufSize + 1 ELSE 1

\* the peer of the source sends k more bytes: the client's bytes join the
\* byte stream of the TCP connection, the broker's bytes are one more frame
PeerSends(c, dir) ==
    /\ Alive
    /\ conns[c].pc = "piping"
    /\ ~SrcClosed(c, dir)
    /\ LET p == conns[c].pipe[dir]
           sent == Len(p.rd) + Len(Avail(p.src))
       IN /\ conns[c].pipe.up.sends + conns[c].pipe.down.sends < MaxPipeSends
          /\ LET seg == PipeBytes(sent, PipeSeg(p.sends + 1))
             IN conns' = [conns EXCEPT
                    ![c].pipe[dir].sends = @ + 1,
                    ![c].pipe[dir].src =
                        IF dir = "up" THEN <<Avail(@) \o seg>>
                        ELSE Append(@, seg)]
    /\ UNCHANGED <<mainpc, cancelled, gErr, lnClosed, acceptpc, acceptSaw,
                   exitErr, dialFailsLeft, faultsLeft>>
    /\ UNCHANGED <<rvars, wvars, dvars>>

\* a read that returns all that has arrived, whatever the buffer holds
PipeReadCountAll(lenBuf, avail) == avail

\* n of src.Read(buf): as much of the first segment as buf holds
PipeReadCount(lenBuf, avail) == Min(lenBuf, avail)

\* n, err := src.Read(buf) returns n > 0 bytes and no error
PipeRead(c, dir) ==
    /\ Alive
    /\ conns[c].pc = "piping"
    /\ conns[c][dir] = "run"
    /\ conns[c].pipe[dir].at = "read"
    /\ ~SrcClosed(c, dir)
    /\ conns[c].pipe[dir].src # <<>>
    /\ LET p == conns[c].pipe[dir]
           first == Head(p.src)
           n == PipeReadCount(pipeBufSize, Len(first))
           rest == Drop(first, n)
       IN conns' = [conns EXCEPT ![c].pipe[dir] =
              [sends |-> p.sends,
               src |-> IF rest = <<>> THEN Tail(p.src)
                       ELSE <<rest>> \o Tail(p.src),
               rd |-> p.rd \o Take(first, n),
               buf |-> Take(first, n),
               wr |-> p.wr,
               at |-> "write"]]
    /\ UNCHANGED <<mainpc, cancelled, gErr, lnClosed, acceptpc, acceptSaw,
                   exitErr, dialFailsLeft, faultsLeft>>
    /\ UNCHANGED <<rvars, wvars, dvars>>

\* n, err = dst.Write(buf[:n]) returns no error
PipeWrite(c, dir) ==
    /\ Alive
    /\ conns[c].pc = "piping"
    /\ conns[c][dir] = "run"
    /\ conns[c].pipe[dir].at = "write"
    /\ ~DstClosed(c, dir)
    /\ conns' = [conns EXCEPT
           ![c].pipe[dir].wr = Append(@, conns[c].pipe[dir].buf),
           ![c].pipe[dir].at = "read"]
    /\ UNCHANGED <<mainpc, cancelled, gErr, lnClosed, acceptpc, acceptSaw,
                   exitErr, dialFailsLeft, faultsLeft>>
    /\ UNCHANGED <<rvars, wvars, dvars>>

\* n, err = dst.Write(buf[:n]) returns an error: the destination is
\* closed, or the write fails otherwise
PipeWriteFail(c, dir) ==
    /\ Alive
    /\ conns[c].pc = "piping"
    /\ conns[c][dir] = "run"
    /\ conns[c].pipe[dir].at = "write"
    /\ IF DstClosed(c, dir) THEN faultsLeft' = faultsLeft
       ELSE faultsLeft > 0 /\ faultsLeft' = faultsLeft - 1
    /\ LET res == PipeResult(c, "io error")
       IN conns' = [conns EXCEPT
              ![c].pipe[dir].wr = Append(@, conns[c].pipe[dir].buf),
              ![c][dir] = res,
              ![c].cErr = FirstErr(@, res)]
    /\ UNCHANGED <<mainpc, cancelled, gErr, lnClosed, acceptpc, acceptSaw,
                   exitErr, dialFailsLeft>>
    /\ UNCHANGED <<rvars, wvars, dvars>>

\* <-ctx.Done(); return conn.Close()
WatchdogConn(c) ==
    /\ Alive
    /\ conns[c].pc = "piping"
    /\ conns[c].wdConn = "wait"
    /\ ConnCtxDone(c)
    /\ \E res \in {"nil", "close error"} :
          /\ IF res = "nil" THEN faultsLeft' = faultsLeft
             ELSE faultsLeft > 0 /\ faultsLeft' = faultsLeft - 1
          /\ conns' = [conns EXCEPT
                 ![c].connClosed = TRUE,
                 ![c].wdConn = res,
                 ![c].cErr = FirstErr(@, res)]
    /\ UNCHANGED <<mainpc, cancelled, gErr, lnClosed, acceptpc, acceptSaw,
                   exitErr, dialFailsLeft>>
    /\ UNCHANGED <<rvars, wvars, dvars>>

\* <-ctx.Done(); return ws.Close()
WatchdogWs(c) ==
    /\ Alive
    /\ conns[c].pc = "piping"
    /\ conns[c].wdWs = "wait"
    /\ ConnCtxDone(c)
    /\ \E res \in {"nil", "close error"} :
          /\ IF res = "nil" THEN faultsLeft' = faultsLeft
             ELSE faultsLeft > 0 /\ faultsLeft' = faultsLeft - 1
          /\ conns' = [conns EXCEPT
                 ![c].wsClosed = TRUE,
                 ![c].wdWs = res,
                 ![c].cErr = FirstErr(@, res)]
    /\ UNCHANGED <<mainpc, cancelled, gErr, lnClosed, acceptpc, acceptSaw,
                   exitErr, dialFailsLeft>>
    /\ UNCHANGED <<rvars, wvars, dvars>>

\* a Wait that only waits for the two copy tasks
TasksReturnedCopyOnly(c) ==
    /\ conns[c].up \notin {"none", "run"}
    /\ conns[c].down \notin {"none", "run"}

\* the four tasks of the connection's group
TasksReturned(c) ==
    /\ conns[c].up \notin {"none", "run"}
    /\ conns[c].down \notin {"none", "run"}
    /\ conns[c].wdConn \notin {"none", "wait"}
    /\ conns[c].wdWs \notin {"none", "wait"}

\* errors.Is(err, io.EOF): err is io.EOF or wraps it
IsEOF(err) == err \in {"EOF", "wrapped EOF"}

\* a handleClient that returns whatever Wait returned
WaitResultAny(err) == IF err # "none" THEN err ELSE "nil"

\* the value handleClient returns when Wait returned err ("none": nil)
WaitResult(err) == IF err # "none" /\ ~IsEOF(err) THEN err ELSE "nil"

\* g.Wait() of handleClient returns once the four tasks have returned:
\* the first error is returned unless it is io.EOF; the task prints the
\* outcome and returns to the top-level group
HandleClientWait(c) ==
    /\ Alive
    /\ conns[c].pc = "piping"
    /\ TasksReturned(c)
    /\ LET ret == WaitResult(conns[c].cErr)
       IN /\ conns' = [conns EXCEPT ![c].ret = ret, ![c].pc = "returned"]
          /\ gErr' = FirstErr(gErr, TaskResult(ret))
    /\ UNCHANGED <<mainpc, cancelled, lnClosed, acceptpc, acceptSaw, exitErr,
                   dialFailsLeft, faultsLeft>>
    /\ UNCHANGED <<rvars, wvars, dvars>>

InitRead == ReadInit /\ WriteIdle /\ DialIdle /\ ProxyIdle

NextRead ==
    \/ ReadBuffered
    \/ ReadBinaryFrame
    \/ ReadOtherFrame
    \/ ReadTransportError

SpecRead == InitRead /\ [][NextRead]_vars

InitWrite == WriteInit({"strict", "accumulating"}) /\ ReadInit /\ DialIdle /\ ProxyIdle

InitStrict == WriteInit({"strict"}) /\ ReadInit /\ DialIdle /\ ProxyIdle

InitAcc == WriteInit({"accumulating"}) /\ ReadInit /\ DialIdle /\ ProxyIdle

NextWrite ==
    \/ StrictWriteCall
    \/ StrictReturnDone
    \/ StrictReturnShortHeader
    \/ StrictReturnShortPayload
    \/ StrictPanic
    \/ StrictSendOk
    \/ StrictSendFail
    \/ AccWriteCall
    \/ AccReturnDone
    \/ AccReturnShortHeader
    \/ AccReturnShortPayload
    \/ AccPanic
    \/ AccSendOk
    \/ AccSendFail

SpecWrite == InitWrite /\ [][NextWrite]_vars

NextStrict ==
    \/ StrictWriteCall
    \/ StrictReturnDone
    \/ StrictReturnShortHeader
    \/ StrictReturnShortPayload
    \/ StrictPanic
    \/ StrictSendOk
    \/ StrictSendFail

SpecStrict == InitStrict /\ [][NextStrict]_vars

NextAcc ==
    \/ AccWriteCall
    \/ AccReturnDone
    \/ AccReturnShortHeader
    \/ AccReturnShortPayload
    \/ AccPanic
    \/ AccSendOk
    \/ AccSendFail

SpecAcc == InitAcc /\ [][NextAcc]_vars

\* ---- one adapter used by two goroutines, one reading, one writing ----

\* what the writing goroutine passes to Write, in pieces: one message, or
\* a header that declares the length -5
ConnStreams == {<<0, 0, 0, 2, 8, 9>>, <<255, 255, 255, 251>>}

InitConn ==
    /\ WriteInit({"strict", "accumulating"})
    /\ stream \in ConnStreams
    /\ ReadInit /\ DialIdle /\ ProxyIdle

\* the calls of Read and the steps of the calls of Write, in any order
NextConn ==
    \/ NextRead /\ wsRecvCount' <= MaxConnFrames
    \/ NextWrite

SpecConn == InitConn /\ [][NextConn]_vars

InitDial == DialIdle /\ ReadInit /\ WriteIdle /\ ProxyIdle

NextDial ==
    \/ DialInvalidNetwork
    \/ DialHandshakeBegin
    \/ DialCtxCancel
    \/ DialHandshakeOk
    \/ DialHandshakeFail

SpecDial == InitDial /\ [][NextDial]_vars

\* one connection whose dial may fail on every attempt
BrokerConns == {1}

InitBroker ==
    /\ ProxyInit(BrokerConns, BrokerConns, MaxFaults)
    /\ ReadInit /\ WriteIdle /\ DialIdle

\* two connections, of which the first may run out of dial attempts
ProxyConns == {1, 2}

FailingConns == {1}

InitProxy ==
    /\ ProxyInit(ProxyConns, FailingConns, ProxyFaults)
    /\ ReadInit /\ WriteIdle /\ DialIdle

NextProxy ==
    \/ Interrupt
    \/ MainCtxDone
    \/ MainCloseListener
    \/ MainCloseListenerFail
    \/ MainWait
    \/ AcceptFailed
    \/ AcceptStopped
    \/ \E c \in Conns : Accept(c)
    \/ \E c \in Conns : HandleClientStart(c)
    \/ \E c \in Conns : DialAttemptFail(c)
    \/ \E c \in Conns : DialAttemptOk(c)
    \/ \E c \in Conns : DialBrokerFailed(c)
    \/ \E c \in Conns, dir \in Dirs : CopyFault(c, dir)
    \/ \E c \in Conns, dir \in Dirs : CopyUnblocked(c, dir)
    \/ \E c \in Conns : WatchdogConn(c)
    \/ \E c \in Conns : WatchdogWs(c)
    \/ \E c \in Conns : HandleClientWait(c)

SpecBroker == InitBroker /\ [][NextProxy]_vars

\* one connection whose dial succeeds and whose peers send data
InitPipe ==
    /\ ProxyInit(BrokerConns, {}, ProxyFaults)
    /\ ReadInit /\ WriteIdle /\ DialIdle

NextPipe ==
    \/ \E c \in Conns : Accept(c)
    \/ \E c \in Conns : HandleClientStart(c)
    \/ \E c \in Conns : DialAttemptOk(c)
    \/ \E c \in Conns, dir \in Dirs : PeerSends(c, dir)
    \/ \E c \in Conns, dir \in Dirs : PipeRead(c, dir)
    \/ \E c \in Conns, dir \in Dirs : PipeWrite(c, dir)
    \/ \E c \in Conns, dir \in Dirs : PipeWriteFail(c, dir)
    \/ \E c \in Conns, dir \in Dirs : CopyFault(c, dir)
    \/ \E c \in Conns, dir \in Dirs : CopyUnblocked(c, dir)
    \/ \E c \in Conns : WatchdogConn(c)
    \/ \E c \in Conns : WatchdogWs(c)
    \/ \E c \in Conns : HandleClientWait(c)

SpecPipe == InitPipe /\ [][NextPipe]_vars

\* ---- the variant cmd/kafka-websocket-proxy: one dial, no retry ----

\* dialer.DialContext of handleClient fails: handleClient returns the
\* wrapped error at once; the task prints it and returns nil to the
\* top-level group
CmdDialFailed(c) ==
    /\ Alive
    /\ conns[c].pc = "dialing"
    /\ dialFailsLeft[c] > 0
    /\ dialFailsLeft' = [dialFailsLeft EXCEPT ![c] = @ - 1]
    /\ conns' = [conns EXCEPT
           ![c].attempts = @ + 1,
           ![c].dialErr = 1,
           ![c].ret = "dial websocket failed",
           ![c].cause = 1,
           ![c].pc = "returned"]
    /\ gErr' = FirstErr(gErr, TaskResult("dial websocket failed"))
    /\ UNCHANGED <<mainpc, cancelled, lnClosed, acceptpc, acceptSaw, exitErr,
                   faultsLeft>>
    /\ UNCHANGED <<rvars, wvars, dvars>>

\* dialer.DialContext of handleClient succeeds: handleClient starts the
\* two copy tasks and the two watchdogs
CmdDialOk(c) ==
    /\ Alive
    /\ conns[c].pc = "dialing"
    /\ conns' = [conns EXCEPT
           ![c].attempts = @ + 1,
           ![c].wsOpen = TRUE,
           ![c].pc = "piping",
           ![c].up = "run",
           ![c].wdConn = "wait",
           ![c].down = "run",
           ![c].wdWs = "wait"]
    /\ UNCHANGED <<mainpc, cancelled, gErr, lnClosed, acceptpc, acceptSaw,
                   exitErr, dialFailsLeft, faultsLeft>>
    /\ UNCHANGED <<rvars, wvars, dvars>>

\* two connections, of which the first may fail to dial
InitCmd ==
    /\ ProxyInit(ProxyConns, FailingConns, ProxyFaults)
    /\ ReadInit /\ WriteIdle /\ DialIdle

\* main, the accept loop, the tasks and the watchdogs are those of the
\* variant with retries, line for line
NextCmd ==
    \/ Interrupt
    \/ MainCtxDone
    \/ MainCloseListener
    \/ MainCloseListenerFail
    \/ MainWait
    \/ AcceptFailed
    \/ AcceptStopped
    \/ \E c \in Conns : Accept(c)
    \/ \E c \in Conns : HandleClientStart(c)
    \/ \E c \in Conns : CmdDialFailed(c)
    \/ \E c \in Conns : CmdDialOk(c)
    \/ \E c \in Conns, dir \in Dirs : CopyFault(c, dir)
    \/ \E c \in Conns, dir \in Dirs : CopyUnblocked(c, dir)
    \/ \E c \in Conns : WatchdogConn(c)
    \/ \E c \in Conns : WatchdogWs(c)
    \/ \E c \in Conns : HandleClientWait(c)

SpecCmd == InitCmd /\ [][NextCmd]_vars

SpecProxy == InitProxy /\ [][NextProxy]_vars

\* a call of DialContext returns, one way or the other
DialStep(c) == DialAttemptOk(c) \/ DialAttemptFail(c) \/ DialBrokerFailed(c)

\* Scheduling: a goroutine that can run does run, a read of a closed
\* endpoint returns, ln.Close() and DialContext return. Nothing obliges
\* the operator to interrupt, a client to connect or a failure to occur.
FairConn(c) ==
    /\ WF_vars(HandleClientStart(c))
    /\ WF_vars(DialStep(c))
    /\ WF_vars(CopyUnblocked(c, "up"))
    /\ WF_vars(CopyUnblocked(c, "down"))
    /\ WF_vars(WatchdogConn(c))
    /\ WF_vars(WatchdogWs(c))
    /\ WF_vars(HandleClientWait(c))

FairMain ==
    /\ WF_vars(MainCtxDone)
    /\ WF_vars(MainCloseListener)
    /\ WF_vars(AcceptStopped /\ lnClosed)
    /\ WF_vars(MainWait)

SpecBrokerFair ==
    SpecBroker /\ FairMain /\ \A c \in BrokerConns : FairConn(c)

SpecProxyFair ==
    SpecProxy /\ FairMain /\ \A c \in ProxyConns : FairConn(c)

(***************************************************************************)
(* The read path: C1, C2, C3 (under SpecRead).                             *)
(***************************************************************************)
IsPrefix(s, t) == Len(s) <= Len(t) /\ Take(t, Len(s)) = s

\* C1: the bytes the Read calls have returned, concatenated, are always a
\* prefix of the concatenated payloads of the binary frames the transport
\* has delivered, and the two are equal whenever the residual buffer is
\* drained: no byte is dropped, repeated or reordered, whatever the frame
\* lengths and the callers' buffer lengths.
C1_ReadPreservesStream ==
    /\ IsPrefix(rdOut, wsRecvd)
    /\ rdOut \o readBuff = wsRecvd
    /\ (readBuff = <<>> => rdOut = wsRecvd)

\* A frame is partly read with a 1-byte buffer after another frame has been
\* read, and bytes are still buffered.
C1_Witness ==
    /\ wsRecvCount >= 2
    /\ Len(rdOut) >= 4
    /\ rRet.lenb = 1
    /\ rRet.n = 1
    /\ Len(readBuff) >= 1

\* C2: a Read that finds the residual buffer non-empty does no transport
\* receive, copies exactly min(len(b), len(residual)) bytes from its head,
\* advances it past exactly those bytes and returns that count with no
\* error; a transport receive is made only by a Read that found it empty.
C2_BufferedReadNoTransportIO ==
    /\ (rRet.err # "none" /\ Len(rRet.pre) > 0) =>
            /\ wsRecvCount = rRet.recv0
            /\ rRet.n = Min(rRet.lenb, Len(rRet.pre))
            /\ rRet.data = Take(rRet.pre, rRet.n)
            /\ readBuff = Drop(rRet.pre, rRet.n)
            /\ rRet.err = "nil"
    /\ (wsRecvCount > rRet.recv0 => rRet.pre = <<>>)

\* A buffered read that takes part of the residual and leaves the rest.
C2_Witness ==
    /\ Len(rRet.pre) = 3
    /\ rRet.lenb = 2
    /\ rRet.n = 2
    /\ Len(readBuff) = 1
    /\ wsRecvCount = rRet.recv0

\* C3: a Read whose frame is not binary returns 0 bytes and
\* InvalidMessageTypeError carrying the received type; nothing of the
\* payload reaches the caller or the residual buffer, which is still empty.
C3_NonBinaryFrameRejected ==
    (rRet.msgType # 0 /\ rRet.msgType # BinaryMessage) =>
        /\ rRet.n = 0
        /\ rRet.err = "InvalidMessageTypeError"
        /\ rRet.errArg = rRet.msgType
        /\ rRet.data = <<>>
        /\ readBuff = <<>>
        /\ rdOut \o readBuff = wsRecvd

\* A non-binary frame with a payload arrives after bytes have been read.
C3_Witness ==
    /\ rRet.err = "InvalidMessageTypeError"
    /\ rRet.msgType = TextMessage
    /\ Len(rRet.frame) >= 2
    /\ Len(rdOut) >= 2
    /\ rRet.lenb >= 2

(***************************************************************************)
(* The write path: C4 .. C10.                                              *)
(***************************************************************************)
\* The declared length of a ProtocolMessage: its first four bytes as a
\* big-endian signed 32-bit integer.
HeaderLength(s) ==
    LET hi == IF s[1] < 128 THEN s[1] ELSE s[1] - 256 IN
    ((hi * 256 + s[2]) * 256 + s[3]) * 256 + s[4]

\* The complete ProtocolMessages at the head of s, in order: each a 4-byte
\* header that declares a non-negative length and that many payload bytes.
RECURSIVE Messages(_)
Messages(s) ==
    IF Len(s) < 4 THEN <<>>
    ELSE LET L == HeaderLength(s) IN
         IF L < 0 \/ Len(s) - 4 < L THEN <<>>
         ELSE <<SubSeq(s, 1, 4 + L)>> \o Messages(SubSeq(s, 5 + L, Len(s)))

RECURSIVE Flatten(_)
Flatten(ss) == IF ss = <<>> THEN <<>> ELSE Head(ss) \o Flatten(Tail(ss))

\* What follows the complete messages at the head of s.
Remainder(s) == SubSeq(s, Len(Flatten(Messages(s))) + 1, Len(s))

\* A non-empty piece shorter than a full message: part of a header, or a
\* header and fewer payload bytes than it declares.
IsFragment(r) ==
    /\ Len(r) > 0
    /\ \/ Len(r) < 4
       \/ HeaderLength(r) >= 0 /\ Len(r) - 4 < HeaderLength(r)

BinaryFrames(msgs) == [i \in 1..Len(msgs) |-> <<BinaryMessage, msgs[i]>>]

Payloads(frames) == [i \in 1..Len(frames) |-> frames[i][2]]

\* The frames sent by the call in progress or by the last call.
SentInCall == SubSeq(wsOut, wSent0 + 1, Len(wsOut))

\* Every byte passed to Write so far.
AllWritten == SubSeq(stream, 1, pos)

\* The last call of Write has returned.
Returned == wpc = "idle" /\ wRet.err # "none"

\* C4: a strict Write whose input is k >= 1 complete messages, with no
\* failing send, has sent exactly those k messages as k binary frames, in
\* order, headers included, and returns (len(input), nil).
C4_StrictWriteWholeMessages ==
    (/\ policy = "strict"
     /\ Returned
     /\ wRet.err # "transport"
     /\ Len(Messages(wArg)) >= 1
     /\ Remainder(wArg) = <<>>)
    => /\ SentInCall = BinaryFrames(Messages(wArg))
       /\ wRet.n = Len(wArg)
       /\ wRet.err = "nil"

\* Three messages, one of them with a payload, written in one call.
C4_Witness ==
    /\ policy = "strict"
    /\ Returned
    /\ wRet.err = "nil"
    /\ Len(Messages(wArg)) = 3
    /\ Remainder(wArg) = <<>>
    /\ Len(wArg) > 12
    /\ Len(SentInCall) = 3

\* C5: a strict Write of one truncated message (the whole header, fewer
\* payload bytes than it declares) sends no frame and returns 0 with
\* PartialWriteError{expected: declared length, actual: len(input) - 4}.
C5_StrictTruncatedMessage ==
    (/\ policy = "strict"
     /\ Returned
     /\ Len(wArg) >= 4
     /\ Len(wArg) - 4 < HeaderLength(wArg))
    => /\ SentInCall = <<>>
       /\ wRet.n = 0
       /\ wRet.err = "PartialWriteError"
       /\ wRet.expected = HeaderLength(wArg)
       /\ wRet.actual = Len(wArg) - 4

\* A message that declares 2 payload bytes is written with 1 of them.
C5_Witness ==
    /\ policy = "strict"
    /\ Returned
    /\ wArg = <<0, 0, 0, 2, 8>>
    /\ wRet.err = "PartialWriteError"
    /\ wRet.expected = 2
    /\ wRet.actual = 1

\* C6 as stated: every strict Write whose input ends in a fragment shorter
\* than a full message (and in which no send failed) returns 0 bytes
\* accepted with a PartialWriteError, also when complete messages precede
\* the fragment.
C6_Original ==
    (/\ policy = "strict"
     /\ Returned
     /\ wRet.err # "transport"
     /\ IsFragment(Remainder(wArg)))
    => /\ wRet.err = "PartialWriteError"
       /\ wRet.n = 0

\* C6 amended: such a Write returns a PartialWriteError for the fragment,
\* and as the accepted count the total length of the complete messages
\* that precede the fragment, which have been sent as frames; the count is
\* 0 exactly when the fragment is at the head of the input.
C6_StrictTrailingFragment ==
    (/\ policy = "strict"
     /\ Returned
     /\ wRet.err # "transport"
     /\ IsFragment(Remainder(wArg)))
    => /\ wRet.err = "PartialWriteError"
       /\ wRet.n = Len(Flatten(Messages(wArg)))
       /\ SentInCall = BinaryFrames(Messages(wArg))
       /\ (wRet.n = 0 <=> Messages(wArg) = <<>>)
       /\ wRet.expected =
            IF Len(Remainder(wArg)) < 4 THEN 4
            ELSE HeaderLength(Remainder(wArg))
       /\ wRet.actual =
            IF Len(Remainder(wArg)) < 4 THEN Len(Remainder(wArg))
            ELSE Len(Remainder(wArg)) - 4

\* Two complete messages and then a fragment, written in one call.
C6_Witness ==
    /\ policy = "strict"
    /\ Returned
    /\ Len(Messages(wArg)) = 2
    /\ IsFragment(Remainder(wArg))
    /\ wRet.err = "PartialWriteError"
    /\ wRet.n >= 8

\* C7: every frame Write has sent, in either variant, is binary and holds
\* exactly one ProtocolMessage: at least 4 bytes, whose first 4 decode to a
\* declared length L >= 0, and 4 + L bytes in all.
C7_FramesAreMessages ==
    \A i \in 1..Len(wsOut) :
        /\ wsOut[i][1] = BinaryMessage
        /\ Len(wsOut[i][2]) >= 4
        /\ HeaderLength(wsOut[i][2]) >= 0
        /\ Len(wsOut[i][2]) = 4 + HeaderLength(wsOut[i][2])

\* C7 for the strict variant alone.
C7_StrictFramesAreMessages == policy = "strict" => C7_FramesAreMessages

\* C7 for the accumulating variant alone.
C7_AccFramesAreMessages == policy = "accumulating" => C7_FramesAreMessages

\* C8: with no failing send, whenever the accumulating Write is not in a
\* call, the frames sent are the complete messages at the head of all the
\* bytes written so far, one per frame and in order, however the bytes
\* were chunked, and the pending buffer holds less than one message.
C8_AccChunkingIndependent ==
    (/\ policy = "accumulating"
     /\ wpc = "idle"
     /\ sendFails = 0)
    => /\ wsOut = BinaryFrames(Messages(AllWritten))
       /\ wBuf = Remainder(AllWritten)
       /\ Messages(wBuf) = <<>>

\* C8 on the streams in which every header met declares a length >= 0.
C8_OnNonNegativeHeaders ==
    (/\ policy = "accumulating"
     /\ wpc = "idle"
     /\ sendFails = 0
     /\ \/ Remainder(AllWritten) = <<>>
        \/ IsFragment(Remainder(AllWritten)))
    => /\ wsOut = BinaryFrames(Messages(AllWritten))
       /\ wBuf = Remainder(AllWritten)
       /\ Messages(wBuf) = <<>>

\* C9: in the accumulating variant the payloads of the frames sent,
\* followed by the pending buffer, are always the bytes passed to Write so
\* far, also after a failed send: no byte is lost.
C9_AccConservation ==
    policy = "accumulating" =>
        Flatten(Payloads(wsOut)) \o wBuf = AllWritten

\* A send has failed after a frame went out, and bytes are pending.
C9_Witness ==
    /\ policy = "accumulating"
    /\ Returned
    /\ wRet.err = "transport"
    /\ Len(wsOut) >= 1
    /\ Len(wBuf) >= 4
    /\ Len(AllWritten) > Len(wBuf)

\* C10: every return of the accumulating Write in a call with no failing
\* send is (len(b), nil), whatever was pending and however many messages
\* the call flushed.
C10_AccReturnsLenB ==
    (/\ policy = "accumulating"
     /\ Returned
     /\ wRet.err # "transport")
    => /\ wRet.n = Len(wArg)
       /\ wRet.err = "nil"

\* A call completes a message begun in an earlier call and flushes two.
C10_Witness ==
    /\ policy = "accumulating"
    /\ Returned
    /\ wRet.err = "nil"
    /\ wPend > 0
    /\ wPend < 4
    /\ Len(SentInCall) >= 2
    /\ wBuf = <<>>

(***************************************************************************)
(* The connector: C11, C12 (under SpecDial).                               *)
(***************************************************************************)
\* C11: for every network string other than "tcp", Dial and DialContext
\* both return no adapter and InvalidNetworkError carrying the offending
\* string, and no transport handshake is attempted by the call.
C11_InvalidNetworkRejected ==
    (dCalls > 0 /\ dCall.network # "tcp") =>
        /\ dpc = "idle"
        /\ dRet.conn = FALSE
        /\ dRet.err = "InvalidNetworkError"
        /\ dRet.errArg = dCall.network
        /\ dShakes = dCall.shakes0

\* Dial("foo", addr) has been rejected after an earlier call did a handshake.
C11_Witness ==
    /\ dCall.via = "Dial"
    /\ dCall.network = "foo"
    /\ dRet.err = "InvalidNetworkError"
    /\ dRet.errArg = "foo"
    /\ dShakes >= 1

\* C12: a DialContext whose context is already cancelled, or is cancelled
\* before the handshake completes, returns no adapter.
C12_CancelledDialFails ==
    (dCalls > 0 /\ dpc = "idle" /\ dCall.ctxDone) => ~dRet.conn

(***************************************************************************)
(* The forwarding service, one connection: C13, C14, C15 (SpecBroker).     *)
(***************************************************************************)
\* dial attempts of connection c that have failed
FailedAttempts(c) ==
    IF conns[c].wsOpen THEN conns[c].attempts - 1 ELSE conns[c].attempts

\* C13: dialBroker makes at most 5 dial attempts and stops at the first
\* success; after the i-th failed attempt, i in 1..4, it has slept
\* 200ms * 2^(i-1), and it does not sleep after the 5th; four failures
\* followed by a success give the sleeps 200, 400, 800, 1600 ms, an
\* adapter, and a connection that pipes.
C13_RetryBackoff ==
    /\ [](\A c \in Conns :
            /\ conns[c].attempts <= 5
            /\ conns[c].sleeps =
                   [i \in 1..Min(FailedAttempts(c), 4) |-> 200 * 2^(i - 1)]
            /\ conns[c].wsOpen => conns[c].pc \in {"piping", "returned"}
            /\ (conns[c].wsOpen /\ conns[c].attempts = 5) =>
                   conns[c].sleeps = <<200, 400, 800, 1600>>)
    /\ [][\A c \in Conns :
            conns[c].wsOpen =>
                /\ conns'[c].attempts = conns[c].attempts
                /\ conns'[c].sleeps = conns[c].sleeps]_vars

\* Four attempts failed, the fifth succeeded, and the connection pipes.
C13_Witness ==
    \E c \in Conns :
        /\ conns[c].attempts = 5
        /\ conns[c].wsOpen
        /\ conns[c].pc = "piping"
        /\ Len(conns[c].sleeps) = 4
        /\ conns[c].dialErr = 4

\* C14: when all 5 dial attempts of a connection fail, handleClient closes
\* the accepted client connection and returns an error that wraps the
\* error of the 5th attempt, and no copy task or watchdog of the
\* connection is ever started.
C14_DialFailureClosesClient ==
    \A c \in Conns :
        (conns[c].attempts = 5 /\ ~conns[c].wsOpen) =>
            /\ conns[c].up = "none" /\ conns[c].down = "none"
            /\ conns[c].wdConn = "none" /\ conns[c].wdWs = "none"
            /\ conns[c].pc \in {"dialing", "returned"}
            /\ conns[c].pc = "returned" =>
                   /\ conns[c].connClosed
                   /\ conns[c].ret = "dial broker failed"
                   /\ conns[c].cause = 5

\* handleClient has returned after five failed attempts.
C14_Witness ==
    \E c \in Conns :
        /\ conns[c].attempts = 5
        /\ ~conns[c].wsOpen
        /\ conns[c].pc = "returned"
        /\ Len(conns[c].sleeps) = 4

\* the state of the connection in the terms of the state machine
Phase(k) ==
    CASE k.pc = "free" -> "NotAccepted"
      [] k.pc = "accepted" -> "Accepted"
      [] k.pc = "dialing" -> "Connecting"
      [] k.pc = "piping" -> "Piping"
      [] k.pc = "returned" -> "Closed"

\* C15: an accepted connection only moves Accepted -> Connecting ->
\* Piping -> Closed or Connecting -> Closed; it enters Piping only with a
\* dial attempt that succeeded, it moves from Connecting to Closed only
\* when dialing has failed, and it never leaves Closed.
C15_ConnectionStateMachine ==
    [][\A c \in Conns :
          LET from == Phase(conns[c])
              to == Phase(conns'[c])
          IN \/ from = to
             \/ from = "NotAccepted" /\ to = "Accepted"
             \/ from = "Accepted" /\ to = "Connecting"
             \/ /\ from = "Connecting" /\ to = "Piping"
                /\ conns'[c].wsOpen
                /\ conns'[c].attempts = conns[c].attempts + 1
                /\ conns'[c].dialErr = conns[c].dialErr
             \/ /\ from = "Connecting" /\ to = "Closed"
                /\ ~conns[c].wsOpen
                /\ conns[c].dialErr = conns[c].attempts
                /\ conns'[c].ret = "dial broker failed"
             \/ from = "Piping" /\ to = "Closed"]_vars

\* A connection that went through Piping is Closed.
C15_Witness ==
    \E c \in Conns :
        /\ conns[c].pc = "returned"
        /\ conns[c].wsOpen
        /\ conns[c].attempts >= 2

(***************************************************************************)
(* The forwarding service, two connections: C16 (SpecProxy).               *)
(***************************************************************************)
\* a step in which a dial attempt of connection c fails, a copy task of c
\* returns, or handleClient of c returns
ConnFails(c) ==
    \/ conns'[c].dialErr # conns[c].dialErr
    \/ conns'[c].up # conns[c].up /\ conns[c].up = "run"
    \/ conns'[c].down # conns[c].down /\ conns[c].down = "run"
    \/ conns'[c].ret # conns[c].ret

\* C16: a dial failure or a pipe error in one connection does not raise
\* the top-level cancellation, does not close the listener and does not
\* change any other connection; the top-level cancellation is raised only
\* by the interrupt or by an accept error, and no connection task gives
\* an error to the top-level group.
C16_FailureIsolation ==
    /\ [](gErr # "none" => acceptSaw = "running")
    /\ [][\A c \in Conns :
            ConnFails(c) =>
                /\ CtxDone' = CtxDone
                /\ cancelled' = cancelled
                /\ gErr' = gErr
                /\ lnClosed' = lnClosed
                /\ mainpc' = mainpc
                /\ acceptpc' = acceptpc
                /\ \A d \in Conns \ {c} : conns'[d] = conns[d]]_vars
    /\ [][(CtxDone' /\ ~CtxDone) =>
             \/ mainpc = "select" /\ ~cancelled /\ cancelled'
             \/ acceptpc = "run" /\ acceptSaw' = "running"]_vars

\* One connection ran out of dial attempts, the other one failed while
\* piping; the service is neither cancelled nor is its listener closed.
C16_Witness ==
    \E c, d \in Conns :
        /\ conns[c].ret = "dial broker failed"
        /\ conns[d].ret = "io error"
        /\ ~CtxDone
        /\ ~lnClosed
        /\ acceptpc = "run"
        /\ mainpc = "select"

(***************************************************************************)
(* Teardown of a connection: C17 (SpecBroker), C18 (SpecBrokerFair).       *)
(***************************************************************************)
\* C17: whenever handleClient has returned after a successful dial, the
\* client connection and the adapter have been closed and the two copy
\* tasks and the two watchdogs have returned.
C17_TeardownComplete ==
    \A c \in Conns :
        (conns[c].pc = "returned" /\ conns[c].wsOpen) =>
            /\ conns[c].connClosed
            /\ conns[c].wsClosed
            /\ conns[c].up \in {"nil"} \cup PipeErrors
            /\ conns[c].down \in {"nil"} \cup PipeErrors
            /\ conns[c].wdConn \in {"nil", "close error"}
            /\ conns[c].wdWs \in {"nil", "close error"}

\* handleClient has returned an error after its copy task conn -> ws
\* failed.
C17_Witness ==
    \E c \in Conns :
        /\ conns[c].pc = "returned"
        /\ conns[c].wsOpen
        /\ conns[c].up = "io error"
        /\ conns[c].ret = "io error"

\* a copy task of the piping connection c has seen an error
CopyEnded(c) ==
    /\ conns[c].pc = "piping"
    /\ conns[c].up # "run" \/ conns[c].down # "run"

\* C18: once a copy task of a piping connection has seen a read or write
\* error (end of stream included), the scope of the connection is
\* cancelled, and eventually both endpoints are closed, the other copy
\* task and both watchdogs have returned and handleClient has returned
\* (unless the process has exited meanwhile).
C18_TeardownLive ==
    \A c \in BrokerConns :
        /\ [](CopyEnded(c) => ConnCtxDone(c))
        /\ CopyEnded(c) ~>
              \/ ~Alive
              \/ /\ conns[c].pc = "returned"
                 /\ conns[c].connClosed /\ conns[c].wsClosed
                 /\ TasksReturned(c)

\* End of stream on ws -> conn ended the connection: the other copy task
\* returned nil and handleClient returned nil.
C18_Witness ==
    \E c \in Conns :
        /\ conns[c].pc = "returned"
        /\ conns[c].down = "EOF"
        /\ conns[c].up = "nil"
        /\ conns[c].ret = "nil"
        /\ ~CtxDone

(***************************************************************************)
(* Shutdown: C19 (SpecProxyFair), C20 (SpecBroker).                        *)
(***************************************************************************)
\* no failure other than a failed dial attempt has occurred
NoFault == faultsLeft = ProxyFaults

\* the connection has been torn down without an error
Drained(c) ==
    /\ conns[c].pc = "returned"
    /\ conns[c].connClosed /\ conns[c].wsClosed
    /\ conns[c].up = "nil" /\ conns[c].down = "nil"
    /\ conns[c].ret = "nil"

\* C19: after the interrupt, with no other error, the service eventually
\* exits; it exits only after the accept loop and every connection task
\* have returned, and then every connection that was piping has both
\* endpoints closed, its copy tasks returned nil and no error reported.
C19_ShutdownDrains ==
    /\ [](mainpc = "exited" =>
            /\ acceptpc = "returned"
            /\ \A c \in Conns : conns[c].pc \in {"free", "returned"}
            /\ NoFault => \A c \in Conns : conns[c].wsOpen => Drained(c))
    /\ [][\A c \in Conns :
            (cancelled /\ NoFault' /\ conns[c].pc = "piping"
               /\ conns'[c].pc # "piping") => Drained(c)']_vars
    /\ (cancelled /\ NoFault) ~> (mainpc = "exited" \/ ~NoFault)

\* The service has exited after the interrupt with two connections torn
\* down and no failure.
C19_Witness ==
    /\ mainpc = "exited"
    /\ cancelled
    /\ NoFault
    /\ \A c \in ProxyConns : c \in Conns /\ Drained(c) /\ conns[c].attempts = 1

\* the accept loop and the error it gives when it saw an Accept error
\* with the cancellation not requested
AcceptLoopFailed ==
    acceptSaw = "running" =>
        /\ acceptpc = "returned"
        /\ gErr = "tcp listener failed"
        /\ CtxDone

\* an Accept error seen after the cancellation is no error of the loop,
\* and the service then exits without a fatal error if ln.Close() succeeds
AcceptLoopStopped ==
    acceptSaw = "cancelled" =>
        /\ acceptpc = "returned"
        /\ gErr = "none"
        /\ exitErr # "tcp listener failed"
        /\ (~Alive /\ lnClosed) => mainpc = "exited" /\ exitErr = "none"

\* C20 as stated: an Accept error seen with the cancellation not requested
\* stops the loop and cancels the top-level context, and main closes the
\* listener, waits for all connection tasks and exits with a fatal error;
\* an Accept error seen after the cancellation makes the loop return nil.
C20_Original ==
    /\ AcceptLoopFailed
    /\ AcceptLoopStopped
    /\ (acceptSaw = "running" /\ ~Alive) =>
           /\ mainpc = "fatal"
           /\ lnClosed
           /\ \A c \in Conns : conns[c].pc \in {"free", "returned"}

\* C20 amended: main waits for the connection tasks, and exits with the
\* Accept error, if ln.Close() succeeds; if ln.Close() fails main exits at
\* once with that error, whatever the connection tasks are doing.
C20_AcceptErrorFatal ==
    /\ AcceptLoopFailed
    /\ AcceptLoopStopped
    /\ (acceptSaw = "running" /\ ~Alive) =>
           /\ mainpc = "fatal"
           /\ lnClosed =>
                  /\ exitErr = "tcp listener failed"
                  /\ \A c \in Conns : conns[c].pc \in {"free", "returned"}
           /\ ~lnClosed => exitErr = "close tcp listener failed"

\* The listener failed while a connection was piping: main closed the
\* listener, waited for the connection and exited with the Accept error.
C20_Witness ==
    /\ acceptSaw = "running"
    /\ mainpc = "fatal"
    /\ exitErr = "tcp listener failed"
    /\ \E c \in Conns : conns[c].pc = "returned" /\ conns[c].wsOpen

(***************************************************************************)
(* One frame per Read: C24 (under SpecRead).                               *)
(***************************************************************************)
\* C24: a Read that found the residual buffer empty and received a binary
\* frame of length F has made one transport receive, returns the first
\* min(len(b), F) bytes of that frame and leaves the other bytes of the
\* frame, and nothing else, in the residual buffer; a Read served from the
\* residual buffer makes no receive, so no Read returns bytes of two
\* frames, and a buffer as long as the frame gets the whole frame.
C24_ReadOneFrame ==
    /\ (rRet.msgType = BinaryMessage /\ rRet.err = "nil") =>
           /\ rRet.pre = <<>>
           /\ wsRecvCount = rRet.recv0 + 1
           /\ rRet.n = Min(rRet.lenb, Len(rRet.frame))
           /\ rRet.data = Take(rRet.frame, rRet.n)
           /\ readBuff = Drop(rRet.frame, rRet.n)
           /\ Len(readBuff) = Len(rRet.frame) - Min(rRet.lenb, Len(rRet.frame))
           /\ rRet.lenb >= Len(rRet.frame) =>
                  rRet.data = rRet.frame /\ readBuff = <<>>
    /\ wsRecvCount <= rRet.recv0 + 1
    /\ (rRet.err = "nil" /\ wsRecvCount = rRet.recv0) =>
           IsPrefix(rRet.data, rRet.pre)

\* The third frame, of 3 bytes, is returned whole to a larger buffer.
C24_Witness ==
    /\ rRet.msgType = BinaryMessage
    /\ rRet.recv0 = 2
    /\ Len(rRet.frame) = 3
    /\ rRet.lenb = 4
    /\ rRet.n = 3
    /\ readBuff = <<>>

(***************************************************************************)
(* The write path: C25, C26, C28, C29, C30.                                *)
(***************************************************************************)
\* The bytes the frames of the call have carried.
FlushedInCall == Flatten(Payloads(SentInCall))

\* C25: a strict Write that comes to a non-empty rest of fewer than 4
\* bytes sends no frame for them (the frames of the call carry exactly the
\* bytes before the rest) and fails with PartialWriteError{expected: 4,
\* actual: the length of the rest}.
C25_StrictShortHeader ==
    (/\ policy = "strict"
     /\ Returned
     /\ Len(wb) > 0
     /\ Len(wb) < 4)
    => /\ wRet.err = "PartialWriteError"
       /\ wRet.expected = 4
       /\ wRet.actual = Len(wb)
       /\ FlushedInCall \o wb = wArg

\* Two bytes follow a complete message in the input.
C25_Witness ==
    /\ policy = "strict"
    /\ Returned
    /\ Len(wArg) = 6
    /\ Len(wb) = 2
    /\ Len(SentInCall) = 1
    /\ wRet.err = "PartialWriteError"
    /\ wRet.actual = 2

\* C26: an accumulating Write in which a send fails returns the transport
\* error and a count n, 0 <= n <= len(b), equal to the bytes the frames of
\* the call carried minus the bytes that were pending before it, floored
\* at zero: the bytes of this call's input that were sent.
C26_AccCountOnSendFailure ==
    (/\ policy = "accumulating"
     /\ Returned
     /\ wRet.err = "transport")
    => /\ wRet.n >= 0
       /\ wRet.n <= Len(wArg)
       /\ wRet.n = (IF Len(FlushedInCall) > wPend
                    THEN Len(FlushedInCall) - wPend ELSE 0)
       /\ wRet.n = Len(wArg) - Min(Len(wArg), Len(wBuf))

\* A send fails after the call has flushed a message begun earlier.
C26_Witness ==
    /\ policy = "accumulating"
    /\ Returned
    /\ wRet.err = "transport"
    /\ wPend > 0
    /\ wRet.n > 0
    /\ wRet.n < Len(wArg)

\* One that fails before the pending bytes have been flushed.
C26_WitnessFloor ==
    /\ policy = "accumulating"
    /\ Returned
    /\ wRet.err = "transport"
    /\ wPend > 0
    /\ Len(FlushedInCall) < wPend
    /\ wRet.n = 0

\* The bytes Write still has to process.
ToProcess == IF policy = "strict" THEN wb ELSE wBuf

\* C28: every iteration of the loop of Write, in both variants, returns
\* or removes at least 4 bytes from the bytes still to be processed (and
\* so the loop runs at most len/4 + 1 times), also for a header that
\* declares a negative length.
C28_WriteTerminates ==
    [][(wpc = "loop" /\ iters' = iters + 1) =>
          \/ wpc' = "idle"
          \/ /\ wpc' = "loop"
             /\ Len(ToProcess') + 4 <= Len(ToProcess)]_vars

\* C28 for the strict variant alone.
C28_StrictWriteTerminates ==
    [][(policy = "strict" /\ wpc = "loop" /\ iters' = iters + 1) =>
          \/ wpc' = "idle"
          \/ /\ wpc' = "loop"
             /\ Len(wb') + 4 <= Len(wb)]_vars

\* C28 for the accumulating variant alone.
C28_AccWriteTerminates ==
    [][(policy = "accumulating" /\ wpc = "loop" /\ iters' = iters + 1) =>
          \/ wpc' = "idle"
          \/ /\ wpc' = "loop"
             /\ Len(wBuf') + 4 <= Len(wBuf)]_vars

\* C29: on every return (n, err) of the strict Write, n is the total
\* payload length of the frames sent in the call, and those frames are
\* the first of the complete messages at the head of the input.
C29_StrictReportsWire ==
    (policy = "strict" /\ Returned) =>
        /\ wRet.n = Len(FlushedInCall)
        /\ IsPrefix(SentInCall, BinaryFrames(Messages(wArg)))

\* C29 on the inputs in which every header met declares a length >= 0.
C29_OnNonNegativeHeaders ==
    (/\ policy = "strict"
     /\ Returned
     /\ \/ Remainder(wArg) = <<>>
        \/ IsFragment(Remainder(wArg)))
    => /\ wRet.n = Len(FlushedInCall)
       /\ IsPrefix(SentInCall, BinaryFrames(Messages(wArg)))

\* The bytes of the input of the call that are in the pending-write
\* buffer: the buffer is a suffix of the earlier pending bytes followed by
\* the input, so it holds the last of them.
RetainedInput ==
    SubSeq(wArg, Len(wArg) - Min(Len(wArg), Len(wBuf)) + 1, Len(wArg))

\* C30: when the accumulating Write returns n < len(b), none of the
\* bytes b[n:] is left in the pending-write buffer, so that a caller who
\* passes b[n:] again has no byte sent twice.
C30_AccRetainsNothingUnaccepted ==
    (/\ policy = "accumulating"
     /\ Returned
     /\ wRet.n < Len(wArg))
    => RetainedInput = <<>>

(***************************************************************************)
(* The copy tasks and the result of handleClient: C22, C23 (SpecBroker).   *)
(***************************************************************************)
\* C22: a copy task whose read or write fails returns nil if the context
\* of the connection is already done at that moment, and otherwise returns
\* that error, which becomes the first error of the connection's group and
\* cancels the context of the connection; a copy task that has returned
\* nil has a connection whose context is done.
C22_CopyErrorClassification ==
    /\ [](\A c \in Conns : \A dir \in Dirs :
             conns[c][dir] = "nil" => ConnCtxDone(c))
    /\ [][\A c \in Conns : \A dir \in Dirs :
            (conns[c][dir] = "run" /\ conns'[c][dir] # "run") =>
                IF ConnCtxDone(c)
                THEN conns'[c][dir] = "nil"
                ELSE /\ conns'[c][dir] \in PipeErrors
                     /\ conns'[c].cErr = conns'[c][dir]
                     /\ ConnCtxDone(c)']_vars

\* The copy task conn -> ws returned an error that wraps io.EOF with the
\* context not done, the copy task ws -> conn then returned nil.
C22_Witness ==
    \E c \in Conns :
        /\ conns[c].pc = "piping"
        /\ conns[c].up = "wrapped EOF"
        /\ conns[c].down = "nil"
        /\ conns[c].cErr = "wrapped EOF"
        /\ ~CtxDone

\* C23: when handleClient has returned after a successful dial and the
\* first error of the tasks of the connection is io.EOF, wrapped or not,
\* it has returned nil and both endpoints are closed; it has returned an
\* error exactly if there is a first task error that is not io.EOF, and
\* then it has returned that error.
C23_EOFIsNoFailure ==
    \A c \in Conns :
        (conns[c].pc = "returned" /\ conns[c].wsOpen) =>
            /\ conns[c].cErr \in {"EOF", "wrapped EOF"} =>
                   /\ conns[c].ret = "nil"
                   /\ conns[c].connClosed /\ conns[c].wsClosed
                   /\ conns[c].cErr \in {conns[c].up, conns[c].down}
            /\ conns[c].ret # "nil" <=>
                   conns[c].cErr \notin {"none", "EOF", "wrapped EOF"}
            /\ conns[c].ret # "nil" => conns[c].ret = conns[c].cErr

\* handleClient returned nil after the copy task ws -> conn returned an
\* error that wraps io.EOF, although closing the client connection failed
\* afterwards.
C23_Witness ==
    \E c \in Conns :
        /\ conns[c].pc = "returned"
        /\ conns[c].down = "wrapped EOF"
        /\ conns[c].cErr = "wrapped EOF"
        /\ conns[c].wdConn = "close error"
        /\ conns[c].ret = "nil"

(***************************************************************************)
(* Cancellation while dialing: C27 (SpecBroker).                           *)
(***************************************************************************)
\* C27: once the context of main is done, a connection in the retry loop
\* of dialBroker makes no further dial attempt and no further backoff
\* sleep, and does not start piping.
C27_CancellationStopsDialing ==
    [][\A c \in Conns :
          (CtxDone /\ conns[c].pc = "dialing") =>
              /\ conns'[c].attempts = conns[c].attempts
              /\ conns'[c].sleeps = conns[c].sleeps
              /\ conns'[c].pc # "piping"]_vars

\* C27, the dial attempts alone
C27_NoDialAfterCancel ==
    [][\A c \in Conns :
          (cancelled /\ conns[c].pc = "dialing") =>
              conns'[c].attempts = conns[c].attempts]_vars

\* C27, the entry into Piping alone
C27_NoPipingAfterCancel ==
    [][\A c \in Conns :
          (cancelled /\ conns[c].pc = "dialing") =>
              conns'[c].pc # "piping"]_vars

(***************************************************************************)
(* Ordering of the forwarded bytes: C21 (SpecPipe).                        *)
(***************************************************************************)
\* the bytes the copy task of a direction has passed to Write
Forwarded(p) == Flatten(p.wr)

\* C21: in each direction of a connection the bytes passed to the
\* destination's Write are at every moment a prefix of the bytes read from
\* the source, which are the bytes the peer sent, in order; the only bytes
\* read and not passed on are those of the last read; no chunk is longer
\* than 4096 bytes; a step passes on at most one chunk, the one of the last
\* read, after everything passed on before, and never takes back what was
\* read or passed on.
C21_PipeOrdering ==
    /\ [](\A c \in Conns : \A dir \in Dirs :
             LET p == conns[c].pipe[dir]
             IN /\ IsPrefix(Forwarded(p), p.rd)
                /\ p.rd = Forwarded(p) \o
                       (IF p.at = "write" /\ conns[c][dir] = "run"
                        THEN p.buf ELSE <<>>)
                /\ p.rd \o Avail(p.src) =
                       PipeBytes(0, Len(p.rd) + Len(Avail(p.src)))
                /\ \A i \in DOMAIN p.wr :
                       Len(p.wr[i]) >= 1 /\ Len(p.wr[i]) <= 4096)
    /\ [][\A c \in Conns : \A dir \in Dirs :
            LET p == conns[c].pipe[dir]
                q == conns'[c].pipe[dir]
            IN /\ IsPrefix(p.rd, q.rd)
               /\ q.wr # p.wr =>
                      /\ p.at = "write"
                      /\ q.wr = Append(p.wr, p.buf)
                      /\ q.rd = p.rd
                      /\ Forwarded(q) = p.rd]_vars

\* The client and the broker each sent 4097 bytes: the copy task
\* conn -> ws has passed them on in a chunk of 4096 bytes and a chunk of
\* one byte; the copy task ws -> conn has passed on 4096 bytes and holds
\* the last byte, read and not yet passed on.
C21_Witness ==
    \E c \in Conns :
        LET u == conns[c].pipe.up
            d == conns[c].pipe.down
        IN /\ Len(u.wr) = 2 /\ Len(u.wr[1]) = 4096 /\ Len(u.wr[2]) = 1
           /\ Len(d.wr) = 1 /\ Len(d.wr[1]) = 4096
           /\ d.at = "write" /\ Len(d.rd) = 4097 /\ conns[c].down = "run"

(***************************************************************************)
(* The variant without retries: C31 (SpecCmd).                             *)
(***************************************************************************)
\* C31: in cmd/kafka-websocket-proxy, whenever handleClient has returned,
\* on whatever path, the accepted client connection has been closed.
C31_ClientClosedOnEveryReturn ==
    \A c \in Conns : conns[c].pc = "returned" => conns[c].connClosed

\* C31, the returns after a successful dial alone
C31_ClosedAfterPiping ==
    \A c \in Conns :
        (conns[c].pc = "returned" /\ conns[c].wsOpen) => conns[c].connClosed

(***************************************************************************)
(* Read and Write on one adapter: C32 (SpecConn).                          *)
(***************************************************************************)
\* C32: with Read and Write called concurrently on one adapter, no step
\* changes state of both sides: a step of Read changes nothing of the
\* pending-write buffer, of the frames sent or of the call of Write in
\* progress, a step of Write changes nothing of the residual read buffer
\* or of what has been received and returned; and in every interleaving
\* the bytes read are those received, and the bytes sent and pending are
\* those written, as without the other side.
C32_ReadWriteDisjoint ==
    /\ [][/\ rvars' = rvars \/ wvars' = wvars
          /\ readBuff' # readBuff =>
                 wBuf' = wBuf /\ wb' = wb /\ wsOut' = wsOut /\ wpc' = wpc
          /\ (wBuf' # wBuf \/ wb' # wb \/ wsOut' # wsOut \/ wpc' # wpc) =>
                 readBuff' = readBuff /\ wsRecvd' = wsRecvd
                     /\ rdOut' = rdOut]_vars
    /\ [](rdOut \o readBuff = wsRecvd)
    /\ [](policy = "accumulating" =>
              Flatten(Payloads(wsOut)) \o wBuf = SubSeq(stream, 1, pos))

\* A Read left a residual while a call of the accumulating Write was in
\* its loop with bytes pending from an earlier call.
C32_Witness ==
    /\ policy = "accumulating"
    /\ wpc = "loop"
    /\ wPend > 0
    /\ Len(wBuf) > wPend
    /\ Len(readBuff) > 0
    /\ rRet.msgType = BinaryMessage

====
